---- MODULE Spec2Model ----
(***************************************************************************)
(* Verification model of fund_reco_fit (yuna78/fundseeker): the walk-forward *)
(* window generator, the per-window validation loop, the future-return      *)
(* construction and the weight grid searches.                               *)
(*                                                                         *)
(* The model is a sum of components.  Init picks one component and leaves   *)
(* the others idle; every action belongs to exactly one component.          *)
(*   windows    : WalkForwardValidator.create_windows                       *)
(***************************************************************************)
EXTENDS Integers, Sequences, FiniteSets, TLC

VARIABLES
    \* ---- create_windows (walk_forward_validator.py:103-154)
    cw_pc,                  \* "idle" | "loop" | "done"
    start_date,             \* argument, a calendar date [y, m, d]
    end_date,               \* argument, a calendar date [y, m, d]
    train_months,           \* argument
    test_months,            \* argument
    step_months,            \* argument
    current_train_start,    \* local: Timestamp walking forward
    window_id,              \* local: next window id
    windows,                \* local: list of ValidationWindow
    \* ---- weight search and backtest pipelines
    \*      optimizer.run (134-222), WalkForwardValidator.optimize_weights
    \*      (186-247) on one loaded table, backtester.run (79-125)
    op_pc,                  \* "idle" | "attach" | "search" | "evaluate" | "done" | "raised"
    op_mode,                \* "cli" | "wf" | "backtest"
    features,               \* the rows the feature-store query returned
    df,                     \* the table with its future-return target
    grid_values,            \* cli: --grid; wf: weight_candidates
    min_abs_weight,         \* cli: --min-abs-weight
    caps,                   \* cli: --max-weight, per feature a cap or NaN
    top_k,                  \* cli, backtest: --top-k
    combo_idx,              \* position of the loop in product(...)
    best,                   \* cli: Optional[WeightResult]
    best_weights,           \* wf: None or the best weight dict
    best_sharpe,            \* wf: the best objective so far
    weights,                \* backtest: the loaded weights
    grid_step,              \* wf: grid_step, in hundredths
    output                  \* what the pipeline returned or wrote

VARIABLES
    rv_pc,                  \* run_validation: position in the loop body
    feature_store,          \* the rows of the feature table in the database
    date_text,              \* how the table stores snapshot_date as text
    rv_windows,             \* the windows argument
    rv_i,                   \* index of the window the for loop is at
    rv_top_k,               \* the top_k argument
    rv_grid_step,           \* the grid_step argument, in hundredths
    train_df,
    rv_weights,
    test_df,
    results

VARIABLES
    rs_pc,    \* random search of optimize_weights: position
    rs_train_df,    \* the train_df argument
    rs_candidates,    \* weight_candidates
    rs_run,    \* which of the two calls on the same arguments is running
    rs_trial,    \* trials done by the running call
    rs_best_weights,
    rs_best_sharpe,
    rs_returned    \* the weight dicts the finished calls returned

VARIABLES
    rp_pc,    \* position inside the walk_forward command after run_validation
    output_data,    \* what save_results dumps, as a 1-tuple
    report    \* what generate_report returns, as a 1-tuple

VARIABLES
    wl_pc,    \* position of the two loads
    wl_loader,    \* which loader reads the files
    wl_mapping,    \* the feature-to-coefficient mapping that was persisted
    wl_from_bare,    \* what the loader made of the bare file
    wl_from_nested    \* what the loader made of the nested file

VARIABLES
    fb_pc,    \* position inside compute_features
    nav_df,    \* per fund, the number of daily observations in each sampling period
    fb_fund,    \* the fund the groupby loop is at
    fb_features,    \* the list of sampled frames
    fb_result    \* the returned frame

VARIABLES
    ds_pc,    \* position inside the body of the groupby loop of compute_features
    ds_group,    \* the daily rows of one fund, ascending by date
    ds_window,    \* the length of the rolling windows
    ds_rolled,    \* the daily rows with the rolling columns
    ds_sampled    \* the down-sampled frame

VARIABLES
    ev_pc,    \* position of the direct call of an evaluator
    ev_kind,    \* which evaluator is called
    ev_df,    \* the table handed to the evaluator, targets possibly missing
    ev_weights,    \* the weight vector
    ev_top_k,    \* top_k
    ev_returns    \* portfolio_returns

VARIABLES
    cf_pc,    \* position inside fit_weights
    cf_train,    \* per fund, the feature value at snapshot_train (a 1-tuple) or <<>> when the fund has no row
    cf_target,    \* per fund, whether it has a row at snapshot_target and the return of that row
    ridge_lambda,    \* the ridge penalty
    cf_top_k,    \* top_k
    cf_result    \* the FitResult or the exception, as a 1-tuple

VARIABLES
    lc_pc,    \* position of the call of load_config
    environ,    \* os.environ: per variable, whether it is set and its value
    yaml_defaults,    \* the defaults section of config.yaml: per key, whether it is present and its value
    app_config    \* the returned AppConfig, as a 1-tuple

VARIABLES
    dt_pc,    \* position of DetailService.run, or stopped after an interruption
    dt_total,    \* len(df_input)
    save_interval,    \* config.settings.save_interval
    dt_runs,    \* calls of run so far
    progress_dir,    \* the progress files, by the order of their timestamped names
    output_dir,    \* the output workbooks, by the order of their timestamped names
    progress_info,    \* what _find_existing_progress returned to the current run, empty for None
    progress_path,
    output_path,
    dt_processed,
    dt_last_index,
    dt_results    \* the list results of the current run

cwVars == <<cw_pc, start_date, end_date, train_months, test_months, step_months,
            current_train_start, window_id, windows>>

opVars == <<op_pc, op_mode, features, df, grid_values, min_abs_weight, caps, top_k,
            combo_idx, best, best_weights, best_sharpe, weights, grid_step, output>>

rvVars == <<rv_pc, feature_store, date_text, rv_windows, rv_i, rv_top_k, rv_grid_step,
           train_df, rv_weights, test_df, results>>

rsVars == <<rs_pc, rs_train_df, rs_candidates, rs_run, rs_trial, rs_best_weights, rs_best_sharpe, rs_returned>>

rpVars == <<rp_pc, output_data, report>>

wlVars == <<wl_pc, wl_loader, wl_mapping, wl_from_bare, wl_from_nested>>

fbVars == <<fb_pc, nav_df, fb_fund, fb_features, fb_result>>

dsVars == <<ds_pc, ds_group, ds_window, ds_rolled, ds_sampled>>

evVars == <<ev_pc, ev_kind, ev_df, ev_weights, ev_top_k, ev_returns>>

cfVars == <<cf_pc, cf_train, cf_target, ridge_lambda, cf_top_k, cf_result>>

lcVars == <<lc_pc, environ, yaml_defaults, app_config>>

dtVars == <<dt_pc, dt_total, save_interval, dt_runs, progress_dir, output_dir, progress_info, progress_path, output_path, dt_processed, dt_last_index, dt_results>>

vars == <<cwVars, opVars, rvVars, rsVars, rpVars, wlVars, fbVars, dsVars, evVars, cfVars, lcVars, dtVars>>

\* what the actions of one component leave alone
exceptCw == <<opVars, rvVars, rsVars, rpVars, wlVars, fbVars, dsVars, evVars, cfVars, lcVars, dtVars>>

exceptOp == <<cwVars, rvVars, rsVars, rpVars, wlVars, fbVars, dsVars, evVars, cfVars, lcVars, dtVars>>

exceptRv == <<cwVars, opVars, rsVars, rpVars, wlVars, fbVars, dsVars, evVars, cfVars, lcVars, dtVars>>

exceptRs == <<cwVars, opVars, rvVars, rpVars, wlVars, fbVars, dsVars, evVars, cfVars, lcVars, dtVars>>

exceptRp == <<cwVars, opVars, rvVars, rsVars, wlVars, fbVars, dsVars, evVars, cfVars, lcVars, dtVars>>

exceptWl == <<cwVars, opVars, rvVars, rsVars, rpVars, fbVars, dsVars, evVars, cfVars, lcVars, dtVars>>

exceptFb == <<cwVars, opVars, rvVars, rsVars, rpVars, wlVars, dsVars, evVars, cfVars, lcVars, dtVars>>

exceptDs == <<cwVars, opVars, rvVars, rsVars, rpVars, wlVars, fbVars, evVars, cfVars, lcVars, dtVars>>

exceptEv == <<cwVars, opVars, rvVars, rsVars, rpVars, wlVars, fbVars, dsVars, cfVars, lcVars, dtVars>>

exceptCf == <<cwVars, opVars, rvVars, rsVars, rpVars, wlVars, fbVars, dsVars, evVars, lcVars, dtVars>>

exceptLc == <<cwVars, opVars, rvVars, rsVars, rpVars, wlVars, fbVars, dsVars, evVars, cfVars, dtVars>>

exceptDt == <<cwVars, opVars, rvVars, rsVars, rpVars, wlVars, fbVars, dsVars, evVars, cfVars, lcVars>>

(***************************************************************************)
(* Bounds of the model.                                                     *)
(***************************************************************************)
MaxTrainMonths == 12
MaxTestMonths == 6
MaxStepMonths == 6
\* cap on the windows list; only a run that never leaves the loop reaches it
MaxWindows == 26
\* feature columns of the model's feature vocabulary
NumFeatures == 2
\* funds of the model's universe
NumFunds == 2
\* largest --top-k tried
MaxTopK == 2

MaxDate == 6

(***************************************************************************)
(* Calendar arithmetic: pandas Timestamp + pd.DateOffset(months=n).         *)
(***************************************************************************)
Min(a, b) == IF a <= b THEN a ELSE b

Max(a, b) == IF a >= b THEN a ELSE b

IsLeap(y) == (y % 4 = 0 /\ y % 100 # 0) \/ y % 400 = 0

DaysInMonth(y, m) ==
    IF m = 2 THEN (IF IsLeap(y) THEN 29 ELSE 28)
    ELSE IF m \in {4, 6, 9, 11} THEN 30 ELSE 31

MkDate(y, m, d) == [y |-> y, m |-> m, d |-> d]

\* DateOffset(months=n): shift the month, clip the day to the month's length
AddMonths(date, n) ==
    LET total == date.y * 12 + (date.m - 1) + n
        y2 == total \div 12
        m2 == (total % 12) + 1
    IN  MkDate(y2, m2, Min(date.d, DaysInMonth(y2, m2)))

\* Timestamp comparison  a > b
DateGT(a, b) ==
    \/ a.y > b.y
    \/ a.y = b.y /\ a.m > b.m
    \/ a.y = b.y /\ a.m = b.m /\ a.d > b.d

\* strftime("%Y-%m-%d"): the zero-padded text, represented by the number
\* yyyymmdd whose order is the lexicographic order of the text
Strftime(date) == date.y * 10000 + date.m * 100 + date.d

(***************************************************************************)
(* Tables.  A DataFrame is a sequence of rows; a row of the feature table   *)
(* holds fund_code, snapshot_date, the feature columns x (a tuple indexed   *)
(* by feature) and the realized return column ret.  A missing value (NaN)   *)
(* is the empty tuple, a number v is <<v>>.                                 *)
(***************************************************************************)
NaN == <<>>

Num(v) == <<v>>

IsNaN(o) == o = NaN

ValOf(o) == o[1]

Abs(a) == IF a < 0 THEN -a ELSE a

\* the rows of s at the positions I, in position order
SeqAt(s, I) ==
    [ p \in 1..Cardinality(I) |->
        s[CHOOSE i \in I : Cardinality({ j \in I : j < i }) = p - 1] ]

\* sort_values(["fund_code", "snapshot_date"])
ByFundThenDate(a, b) ==
    \/ a.fund_code < b.fund_code
    \/ a.fund_code = b.fund_code /\ a.snapshot_date < b.snapshot_date

\* sort_values(["snapshot_date", "score"], ascending=[True, False])
ByDateThenScoreDesc(a, b) ==
    \/ a.snapshot_date < b.snapshot_date
    \/ a.snapshot_date = b.snapshot_date /\ a.score > b.score

\* walk_forward_validator.py 173: ORDER BY snapshot_date, fund_code
ByDateThenFund(a, b) ==
    \/ a.snapshot_date < b.snapshot_date
    \/ a.snapshot_date = b.snapshot_date /\ a.fund_code < b.fund_code

\* nlargest(top_k, target_col) within the snapshots: target descending
ByDateThenTargetDesc(a, b) ==
    \/ a.snapshot_date < b.snapshot_date
    \/ a.snapshot_date = b.snapshot_date /\ ValOf(a.future) > ValOf(b.future)

\* the strict order that a list of sort keys stands for
Before(order, a, b) ==
    CASE order = "fund_code, snapshot_date" -> ByFundThenDate(a, b)
      [] order = "snapshot_date, fund_code" -> ByDateThenFund(a, b)
      [] order = "snapshot_date, -score" -> ByDateThenScoreDesc(a, b)
      [] order = "snapshot_date, -target" -> ByDateThenTargetDesc(a, b)

\* a stable sort of s by the keys of order (pandas lexsort of the keys)
SortValues(s, order) ==
    LET n == Len(s)
        Pos(i) == 1 + Cardinality({ j \in 1..n :
                        \/ Before(order, s[j], s[i])
                        \/ (~Before(order, s[i], s[j]) /\ j < i) })
    IN  [ p \in 1..n |-> s[CHOOSE i \in 1..n : Pos(i) = p] ]

\* the rows of a table that has one row per key, in the order of the keys
ReadSorted(S, order) ==
    [ p \in 1..Cardinality(S) |->
        CHOOSE r \in S : Cardinality({ q \in S : Before(order, q, r) }) = p - 1 ]

\* a plausible slip: shift(-1) on the whole column, without the groupby
ShiftWholeColumn(s, i) == IF i < Len(s) THEN i + 1 ELSE 0

\* groupby("fund_code")[col].shift(-1): the position whose value row i
\* receives, 0 when the group has no later row
ShiftInGroup(s, i) ==
    LET later == { j \in (i + 1)..Len(s) : s[j].fund_code = s[i].fund_code }
    IN  IF later = {} THEN 0 ELSE CHOOSE j \in later : \A k \in later : j <= k

\* df[future] = df.groupby("fund_code")[ret].shift(-1), on a table already
\* sorted by (fund_code, snapshot_date).  future_src is a history field: the
\* snapshot_date of the row the value was read from (0 for NaN).
WithFutureColumn(s) ==
    [ i \in 1..Len(s) |->
        LET j == ShiftInGroup(s, i)
        IN  [ fund_code     |-> s[i].fund_code,
              snapshot_date |-> s[i].snapshot_date,
              x             |-> s[i].x,
              ret           |-> s[i].ret,
              future        |-> IF j = 0 THEN NaN ELSE s[j].ret,
              future_src    |-> IF j = 0 THEN 0 ELSE s[j].snapshot_date ] ]

HasTarget(r) == ~IsNaN(r.future)

\* df.dropna(subset=[target_col])
DropNaTarget(s) == SelectSeq(s, HasTarget)

\* optimizer.attach_future_returns (69-84): sort, shift within fund, dropna
AttachFutureReturns(S) ==
    DropNaTarget(WithFutureColumn(ReadSorted(S, "fund_code, snapshot_date")))

\* backtester.attach_future_returns (40-45): the same steps on ret_3m
BtAttachFutureReturns(S) ==
    DropNaTarget(WithFutureColumn(ReadSorted(S, "fund_code, snapshot_date")))

(***************************************************************************)
(* Exact arithmetic.  The objective is compared exactly: natural numbers of *)
(* any size are little-endian tuples of limbs in base LimbBase.             *)
(***************************************************************************)
LimbBase == 10000

RECURSIVE BigOfNat(_)
BigOfNat(n) == IF n = 0 THEN <<>> ELSE <<n % LimbBase>> \o BigOfNat(n \div LimbBase)

RECURSIVE BigMulSmall(_, _, _)
BigMulSmall(a, m, carry) ==
    IF a = <<>> THEN BigOfNat(carry)
    ELSE LET t == a[1] * m + carry
         IN  <<t % LimbBase>> \o BigMulSmall(Tail(a), m, t \div LimbBase)

RECURSIVE BigAdd(_, _, _)
BigAdd(a, b, carry) ==
    IF a = <<>> /\ b = <<>> THEN BigOfNat(carry)
    ELSE LET t == (IF a = <<>> THEN 0 ELSE a[1]) + (IF b = <<>> THEN 0 ELSE b[1]) + carry
         IN  <<t % LimbBase>> \o
             BigAdd(IF a = <<>> THEN a ELSE Tail(a), IF b = <<>> THEN b ELSE Tail(b),
                    t \div LimbBase)

RECURSIVE BigStrip(_)
BigStrip(a) ==
    IF a = <<>> THEN a
    ELSE IF a[Len(a)] = 0 THEN BigStrip(SubSeq(a, 1, Len(a) - 1)) ELSE a

RECURSIVE BigMul(_, _)
BigMul(a, b) ==
    IF b = <<>> \/ a = <<>> THEN <<>>
    ELSE BigStrip(BigAdd(BigMulSmall(a, b[1], 0), <<0>> \o BigMul(a, Tail(b)), 0))

\* -1, 0, 1 as a < b, a = b, a > b
RECURSIVE BigCmp(_, _)
BigCmp(a, b) ==
    IF Len(a) # Len(b) THEN (IF Len(a) < Len(b) THEN -1 ELSE 1)
    ELSE IF a = <<>> THEN 0
    ELSE IF a[Len(a)] # b[Len(b)] THEN (IF a[Len(a)] < b[Len(b)] THEN -1 ELSE 1)
    ELSE BigCmp(SubSeq(a, 1, Len(a) - 1), SubSeq(b, 1, Len(b) - 1))

\* a - b for a >= b
RECURSIVE BigSubRaw(_, _, _)
BigSubRaw(a, b, borrow) ==
    IF a = <<>> THEN <<>>
    ELSE LET t == a[1] - (IF b = <<>> THEN 0 ELSE b[1]) - borrow
         IN  <<(t + LimbBase) % LimbBase>> \o
             BigSubRaw(Tail(a), IF b = <<>> THEN b ELSE Tail(b), IF t < 0 THEN 1 ELSE 0)

BigSub(a, b) == BigStrip(BigSubRaw(a, b, 0))

RECURSIVE BigPow(_, _)
BigPow(a, e) == IF e = 0 THEN <<1>> ELSE BigMul(a, BigPow(a, e - 1))

RECURSIVE Factorial(_)
Factorial(n) == IF n <= 1 THEN 1 ELSE n * Factorial(n - 1)

RECURSIVE SumTo(_, _)
SumTo(f, n) == IF n = 0 THEN 0 ELSE f[n] + SumTo(f, n - 1)

(***************************************************************************)
(* Scoring and the portfolio evaluator.                                     *)
(***************************************************************************)
\* a plausible slip: a score with an intercept
DotWithIntercept(x, w) == 1 + SumTo([ j \in 1..Len(x) |-> x[j] * w[j] ], Len(x))

\* feature_matrix.dot(weight_vector), one row
Dot(x, w) == SumTo([ j \in 1..Len(x) |-> x[j] * w[j] ], Len(x))

\* df.assign(score=feature_matrix.dot(weight_vector))
WithScore(s, w) ==
    [ i \in 1..Len(s) |->
        [ fund_code     |-> s[i].fund_code,
          snapshot_date |-> s[i].snapshot_date,
          x             |-> s[i].x,
          ret           |-> s[i].ret,
          future        |-> s[i].future,
          future_src    |-> s[i].future_src,
          score         |-> Dot(s[i].x, w) ] ]

\* a plausible slip: head(k) of the whole table, without the groupby
HeadOfTable(s, k) == SubSeq(s, 1, IF k < Len(s) THEN k ELSE Len(s))

\* groupby("snapshot_date").head(k): the first k rows of every group
GroupHead(s, k) ==
    SeqAt(s, { i \in 1..Len(s) :
                 Cardinality({ j \in 1..(i - 1) :
                     s[j].snapshot_date = s[i].snapshot_date }) < k })

\* sort by (snapshot_date, score descending), then head(top_k) per snapshot
TopPerSnapshot(s, w, k) == GroupHead(SortValues(WithScore(s, w), "snapshot_date, -score"), k)

\* top.groupby("snapshot_date")[target].mean(): per snapshot, ascending, the
\* sum and the count of the targets that are not NaN (mean = sum / cnt, NaN
\* when cnt = 0)
GroupMean(top) ==
    LET dates == { top[i].snapshot_date : i \in 1..Len(top) }
        Rows(d) == { i \in 1..Len(top) : top[i].snapshot_date = d /\ HasTarget(top[i]) }
        vals(d) == [ i \in 1..Len(top) |->
                       IF i \in Rows(d) THEN ValOf(top[i].future) ELSE 0 ]
    IN  [ p \in 1..Cardinality(dates) |->
            LET d == CHOOSE e \in dates : Cardinality({ q \in dates : q < e }) = p - 1
            IN  [ snapshot_date |-> d,
                  sum |-> SumTo(vals(d), Len(top)),
                  cnt |-> Cardinality(Rows(d)) ] ]

\* the common denominator under which every period return is an integer
SeriesScale(pr) ==
    LET m == CHOOSE c \in { pr[i].cnt : i \in 1..Len(pr) } \cup {1} :
                 \A i \in 1..Len(pr) : pr[i].cnt <= c
    IN  Factorial(m)

\* the period returns times SeriesScale, NaN read as 0 (fillna(0))
ScaledReturns(pr) ==
    LET L == SeriesScale(pr)
    IN  [ i \in 1..Len(pr) |->
            IF pr[i].cnt = 0 THEN 0 ELSE pr[i].sum * (L \div pr[i].cnt) ]

\* n^2 (n - 1) L^2 times the sample variance (ddof = 1) of the series
ScaledVariance(pr) ==
    LET R == ScaledReturns(pr)
        n == Len(R)
        sum == SumTo(R, n)
    IN  n * SumTo([ i \in 1..n |-> R[i] * R[i] ], n) - sum * sum

\* An objective value: -inf, or sign * mag / sqrt(v) up to a positive factor
\* that is the same for every candidate evaluated on one table.
NegInf == [ inf |-> TRUE, sign |-> 0, mag |-> <<>>, v |-> 1 ]

Finite(sign, mag, v) == [ inf |-> FALSE, sign |-> sign, mag |-> mag, v |-> v ]

Sign(a) == IF a > 0 THEN 1 ELSE IF a < 0 THEN -1 ELSE 0

\* a plausible slip: >= in the compare-and-replace
SharpeGE(a, b) ==
    IF b.inf THEN TRUE
    ELSE IF a.inf THEN FALSE
    ELSE IF a.sign # b.sign THEN a.sign > b.sign
    ELSE IF a.sign = 0 THEN TRUE
    ELSE LET l == BigMul(BigMul(a.mag, a.mag), BigOfNat(b.v))
             r == BigMul(BigMul(b.mag, b.mag), BigOfNat(a.v))
         IN  IF a.sign > 0 THEN BigCmp(l, r) >= 0 ELSE BigCmp(l, r) <= 0

\* float comparison  a > b
SharpeGT(a, b) ==
    IF a.inf THEN FALSE
    ELSE IF b.inf THEN TRUE
    ELSE IF a.sign # b.sign THEN a.sign > b.sign
    ELSE IF a.sign = 0 THEN FALSE
    ELSE LET l == BigMul(BigMul(a.mag, a.mag), BigOfNat(b.v))
             r == BigMul(BigMul(b.mag, b.mag), BigOfNat(a.v))
         IN  IF a.sign > 0 THEN BigCmp(l, r) > 0 ELSE BigCmp(l, r) < 0

\* optimizer.evaluate_weights (95-105): sharpe = ann_return / vol with
\* ann_return = (1 + mean)^12 - 1 and vol = std * sqrt(12), 0 unless vol > 0
AnnualizationPower == 12

EvaluateWeights(tbl, w, k) ==
    LET pr == GroupMean(TopPerSnapshot(tbl, w, k))
        n == Len(pr)
        L == SeriesScale(pr)
        sum == SumTo(ScaledReturns(pr), n)
        v == ScaledVariance(pr)
        base == BigPow(BigOfNat(Abs(n * L + sum)), AnnualizationPower)
        one == BigPow(BigOfNat(n * L), AnnualizationPower)
        c == BigCmp(base, one)
    IN  IF n < 2 \/ v = 0 \/ c = 0 THEN Finite(0, <<>>, 1)
        ELSE IF c > 0 THEN Finite(1, BigSub(base, one), v)
        ELSE Finite(-1, BigSub(one, base), v)

\* twice the median of the targets of snapshot d (the median of an even
\* number of values is the mean of the two middle ones)
Median2(tbl, d) ==
    LET G == { i \in DOMAIN tbl : tbl[i].snapshot_date = d }
        n == Cardinality(G)
        v(i) == ValOf(tbl[i].future)
        Rank(i) == 1 + Cardinality({ j \in G : v(j) < v(i) \/ (v(j) = v(i) /\ j < i) })
        At(p) == v(CHOOSE i \in G : Rank(i) = p)
    IN  IF n % 2 = 1 THEN 2 * At((n + 1) \div 2)
        ELSE At(n \div 2) + At(n \div 2 + 1)

\* a plausible slip: the median of the selected rows, not of the whole group
HitsOverSelectedMedian(tbl, top, d) ==
    Cardinality({ i \in DOMAIN top :
                    /\ top[i].snapshot_date = d
                    /\ 2 * ValOf(top[i].future) > Median2(top, d) })

\* optimizer.py 108-109: the selected rows of snapshot d whose target is
\* greater than the median of the snapshot's group in the whole table
HitsOverMedian(tbl, top, d) ==
    Cardinality({ i \in DOMAIN top :
                    /\ top[i].snapshot_date = d
                    /\ 2 * ValOf(top[i].future) > Median2(tbl, d) })

\* optimizer.py 108-110, backtester.py 62-63: per snapshot, ascending, the
\* fraction hits / n of the selected rows above the group median; the
\* reported hit rate is the mean of these fractions
HitRate(tbl, w, k) ==
    LET top == TopPerSnapshot(tbl, w, k)
        dates == { top[i].snapshot_date : i \in DOMAIN top }
    IN  [ p \in 1..Cardinality(dates) |->
            LET d == CHOOSE e \in dates : Cardinality({ q \in dates : q < e }) = p - 1
            IN  [ snapshot_date |-> d,
                  hits |-> HitsOverMedian(tbl, top, d),
                  n |-> Cardinality({ i \in DOMAIN top : top[i].snapshot_date = d }) ] ]

\* WalkForwardValidator._evaluate_weights (262-289), top_k fixed at 30:
\* sharpe = mean / std * sqrt(12), -inf for fewer than 2 periods or std = 0
TrainTopK == 30

WfEvaluateWeights(tbl, w) ==
    LET pr == GroupMean(TopPerSnapshot(tbl, w, TrainTopK))
        n == Len(pr)
        sum == SumTo(ScaledReturns(pr), n)
        v == ScaledVariance(pr)
    IN  IF n < 2 THEN NegInf
        ELSE IF v = 0 THEN NegInf
        ELSE Finite(Sign(sum), BigOfNat(Abs(sum)), v)

(***************************************************************************)
(* create_windows                                                           *)
(***************************************************************************)
StartDates ==
    { MkDate(2020, 1, 1), MkDate(2020, 1, 31), MkDate(2020, 2, 29),
      MkDate(2020, 8, 31), MkDate(2020, 12, 15) }

\* the first end date lies before two of the start dates
EndDates ==
    { MkDate(2020, 6, 30), MkDate(2021, 6, 30), MkDate(2021, 7, 1), MkDate(2021, 12, 31) }

\* line 133
TrainEndOf(cur) == AddMonths(cur, train_months)
\* lines 134-135
TestEndOf(cur) == AddMonths(TrainEndOf(cur), test_months)

\* a plausible slip: the stop test looks at the training end only
StopConditionOnTrainEnd(cur) == DateGT(TrainEndOf(cur), end_date)

\* line 138: "Stop if test window exceeds end date"
StopCondition(cur) == DateGT(TestEndOf(cur), end_date)

\* a plausible slip: non-overlapping windows, stepping by the training length
NextTrainStartByTrainLength(cur) == AddMonths(cur, train_months)

\* line 151: "Move to next window"
NextTrainStart(cur) == AddMonths(cur, step_months)

\* lines 141-147
ValidationWindow(cur, id) ==
    [ train_start |-> Strftime(cur),
      train_end   |-> Strftime(TrainEndOf(cur)),
      test_start  |-> Strftime(TrainEndOf(cur)),
      test_end    |-> Strftime(TestEndOf(cur)),
      window_id   |-> id ]

(***************************************************************************)
(* Feature tables of the model.                                             *)
(***************************************************************************)
Funds == 1..NumFunds

FeatureIdx == 1..NumFeatures

FeaturePatterns == {1, 2}

RetPatterns == {1, 2, 3}

\* the feature columns of fund f at snapshot d
FeatureOf(fp, f, d) ==
    [ j \in FeatureIdx |->
        IF fp = 1 THEN (IF j = f THEN 1 ELSE 0)
        ELSE ((f + d + j) % 3) - 1 ]

\* the realized return column of fund f at snapshot d
RetOf(rp, f, d) ==
    IF rp = 1 THEN Num(((2 * f + d) % 3) - 1)
    ELSE IF rp = 2 THEN Num(1)
    ELSE IF f = 1 /\ d = 2 THEN NaN
    ELSE Num(((f + 2 * d) % 3) - 1)

FeatureRow(fp, rp, f, d) ==
    [ fund_code |-> f, snapshot_date |-> d, x |-> FeatureOf(fp, f, d),
      ret |-> RetOf(rp, f, d) ]

\* one row per (fund, snapshot) of the chosen cells
FeatureTable(fp, rp, cells) == { FeatureRow(fp, rp, c[1], c[2]) : c \in cells }

OpIdle ==
    /\ op_pc = "idle"
    /\ op_mode = "idle"
    /\ features = {}
    /\ df = <<>>
    /\ grid_values = <<>>
    /\ min_abs_weight = 0
    /\ caps = <<>>
    /\ top_k = 0
    /\ combo_idx = 0
    /\ best = <<>>
    /\ best_weights = <<>>
    /\ best_sharpe = NegInf
    /\ weights = <<>>
    /\ grid_step = 0
    /\ output = <<>>

RvIdle ==
    /\ rv_pc = "idle"
    /\ feature_store = {}
    /\ date_text = "idle"
    /\ rv_windows = <<>>
    /\ rv_i = 0
    /\ rv_top_k = 0
    /\ rv_grid_step = 0
    /\ train_df = <<>>
    /\ rv_weights = <<>>
    /\ test_df = <<>>
    /\ results = <<>>

RsIdle ==
    /\ rs_pc = "idle"
    /\ rs_train_df = <<>>
    /\ rs_candidates = <<>>
    /\ rs_run = 0
    /\ rs_trial = 0
    /\ rs_best_weights = <<>>
    /\ rs_best_sharpe = NegInf
    /\ rs_returned = <<>>

RpIdle ==
    /\ rp_pc = "idle"
    /\ output_data = <<>>
    /\ report = <<>>

WlIdle ==
    /\ wl_pc = "idle"
    /\ wl_loader = "idle"
    /\ wl_mapping = <<>>
    /\ wl_from_bare = <<>>
    /\ wl_from_nested = <<>>

FbIdle ==
    /\ fb_pc = "idle"
    /\ nav_df = <<>>
    /\ fb_fund = 0
    /\ fb_features = <<>>
    /\ fb_result = <<>>

DsIdle ==
    /\ ds_pc = "idle"
    /\ ds_group = <<>>
    /\ ds_window = 0
    /\ ds_rolled = <<>>
    /\ ds_sampled = <<>>

EvIdle ==
    /\ ev_pc = "idle"
    /\ ev_kind = "idle"
    /\ ev_df = <<>>
    /\ ev_weights = <<>>
    /\ ev_top_k = 0
    /\ ev_returns = <<>>

CfIdle ==
    /\ cf_pc = "idle"
    /\ cf_train = <<>>
    /\ cf_target = <<>>
    /\ ridge_lambda = 0
    /\ cf_top_k = 0
    /\ cf_result = <<>>

LcIdle ==
    /\ lc_pc = "idle"
    /\ environ = <<>>
    /\ yaml_defaults = <<>>
    /\ app_config = <<>>

DtIdle ==
    /\ dt_pc = "idle"
    /\ dt_total = 0
    /\ save_interval = 0
    /\ dt_runs = 0
    /\ progress_dir = <<>>
    /\ output_dir = <<>>
    /\ progress_info = <<>>
    /\ progress_path = 0
    /\ output_path = 0
    /\ dt_processed = 0
    /\ dt_last_index = 0
    /\ dt_results = <<>>

CwIdle ==
    /\ cw_pc = "idle"
    /\ start_date = MkDate(2020, 1, 1)
    /\ end_date = MkDate(2020, 1, 1)
    /\ train_months = 0
    /\ test_months = 0
    /\ step_months = 0
    /\ current_train_start = MkDate(2020, 1, 1)
    /\ window_id = 1
    /\ windows = <<>>

\* the components that an Init of one component leaves idle
IdleExceptCw == OpIdle /\ RvIdle /\ RsIdle /\ RpIdle /\ WlIdle /\ FbIdle /\ DsIdle /\ EvIdle /\ CfIdle /\ LcIdle /\ DtIdle

IdleExceptOp == CwIdle /\ RvIdle /\ RsIdle /\ RpIdle /\ WlIdle /\ FbIdle /\ DsIdle /\ EvIdle /\ CfIdle /\ LcIdle /\ DtIdle

IdleExceptRv == CwIdle /\ OpIdle /\ RsIdle /\ RpIdle /\ WlIdle /\ FbIdle /\ DsIdle /\ EvIdle /\ CfIdle /\ LcIdle /\ DtIdle

IdleExceptRs == CwIdle /\ OpIdle /\ RvIdle /\ RpIdle /\ WlIdle /\ FbIdle /\ DsIdle /\ EvIdle /\ CfIdle /\ LcIdle /\ DtIdle

IdleExceptWl == CwIdle /\ OpIdle /\ RvIdle /\ RsIdle /\ RpIdle /\ FbIdle /\ DsIdle /\ EvIdle /\ CfIdle /\ LcIdle /\ DtIdle

IdleExceptFb == CwIdle /\ OpIdle /\ RvIdle /\ RsIdle /\ RpIdle /\ WlIdle /\ DsIdle /\ EvIdle /\ CfIdle /\ LcIdle /\ DtIdle

IdleExceptDs == CwIdle /\ OpIdle /\ RvIdle /\ RsIdle /\ RpIdle /\ WlIdle /\ FbIdle /\ EvIdle /\ CfIdle /\ LcIdle /\ DtIdle

IdleExceptEv == CwIdle /\ OpIdle /\ RvIdle /\ RsIdle /\ RpIdle /\ WlIdle /\ FbIdle /\ DsIdle /\ CfIdle /\ LcIdle /\ DtIdle

IdleExceptCf == CwIdle /\ OpIdle /\ RvIdle /\ RsIdle /\ RpIdle /\ WlIdle /\ FbIdle /\ DsIdle /\ EvIdle /\ LcIdle /\ DtIdle

IdleExceptLc == CwIdle /\ OpIdle /\ RvIdle /\ RsIdle /\ RpIdle /\ WlIdle /\ FbIdle /\ DsIdle /\ EvIdle /\ CfIdle /\ DtIdle

IdleExceptDt == CwIdle /\ OpIdle /\ RvIdle /\ RsIdle /\ RpIdle /\ WlIdle /\ FbIdle /\ DsIdle /\ EvIdle /\ CfIdle /\ LcIdle

\* lines 124-129: state on entry to the while loop
InitWindows ==
    /\ cw_pc = "loop"
    /\ start_date \in StartDates
    /\ end_date \in EndDates
    /\ train_months \in 0..MaxTrainMonths
    /\ test_months \in 0..MaxTestMonths
    /\ step_months \in 0..MaxStepMonths
    /\ current_train_start = start_date
    /\ window_id = 1
    /\ windows = <<>>
    /\ IdleExceptCw

\* lines 131-152: one iteration that emits a window and moves on
CwEmit ==
    /\ cw_pc = "loop"
    /\ ~StopCondition(current_train_start)
    /\ Len(windows) < MaxWindows
    /\ windows' = Append(windows, ValidationWindow(current_train_start, window_id))
    /\ current_train_start' = NextTrainStart(current_train_start)
    /\ window_id' = window_id + 1
    /\ UNCHANGED <<cw_pc, start_date, end_date, train_months, test_months, step_months>>
    /\ UNCHANGED exceptCw

\* lines 138-139, 154: break and return
CwBreak ==
    /\ cw_pc = "loop"
    /\ StopCondition(current_train_start)
    /\ cw_pc' = "done"
    /\ UNCHANGED <<start_date, end_date, train_months, test_months, step_months,
                   current_train_start, window_id, windows>>
    /\ UNCHANGED exceptCw

NextWindows == CwEmit \/ CwBreak

SpecWindows == InitWindows /\ [][NextWindows]_vars

(***************************************************************************)
(* Weight search: optimizer.run and WalkForwardValidator.optimize_weights.  *)
(* Weights of the walk-forward search are in hundredths.                    *)
(***************************************************************************)
RECURSIVE IntPow(_, _)
IntPow(b, e) == IF e = 0 THEN 1 ELSE b * IntPow(b, e - 1)

\* len(list(product(vals, repeat=len(FEATURE_COLS))))
NumCombos(vals) == IntPow(Len(vals), NumFeatures)

\* itertools.product(vals, repeat=n): combination idx (from 0), the last
\* position running fastest
Combo(vals, idx) ==
    [ j \in FeatureIdx |->
        vals[((idx \div IntPow(Len(vals), NumFeatures - j)) % Len(vals)) + 1] ]

\* optimizer.py 191: np.allclose(weight_vector, 0)
AllCloseZero(w) == \A j \in DOMAIN w : w[j] = 0

\* optimizer.py 193
BelowMinAbs(w) == min_abs_weight > 0 /\ \E j \in DOMAIN w : Abs(w[j]) < min_abs_weight

\* a plausible slip: the comparison with the cap is reversed
OverCapReversed(w) ==
    /\ \E j \in DOMAIN caps : ~IsNaN(caps[j])
    /\ \E j \in DOMAIN w : ~IsNaN(caps[j]) /\ w[j] < ValOf(caps[j])

\* optimizer.py 195-203
OverCap(w) ==
    /\ \E j \in DOMAIN caps : ~IsNaN(caps[j])
    /\ \E j \in DOMAIN w : ~IsNaN(caps[j]) /\ w[j] > ValOf(caps[j])

\* the combination is passed over by a continue
Skipped(w) == AllCloseZero(w) \/ BelowMinAbs(w) \/ OverCap(w)

\* a plausible slip: the last maximum wins
BetterOrEqual(sharpe, than) == SharpeGE(sharpe, than)

\* optimizer.py 206: result.sharpe > best.sharpe
Better(sharpe, than) == SharpeGT(sharpe, than)

\* optimizer.py 190-207: the body of the loop for one combination
RunStep(b, combo) ==
    IF Skipped(combo) THEN b
    ELSE LET result == [ weights |-> combo,
                         sharpe |-> EvaluateWeights(df, combo, top_k),
                         hit_rate_top_k |-> HitRate(df, combo, top_k) ]
         IN  IF b = <<>> THEN <<result>>
             ELSE IF Better(result.sharpe, b[1].sharpe) THEN <<result>> ELSE b

\* walk_forward_validator.py 193: default max_weight, 192: default min_weight
MaxWeight == 20

MinWeight == 0

\* walk_forward_validator.py 247: the fallback weight 0.1
FallbackWeight == 10

\* np.arange(lo, hi, step) has ceil((hi - lo) / step) elements, the quotient
\* taken in IEEE doubles: (0.2 + 0.1 - 0.0) / 0.1 is 3.0000000000000004
ArangeLength(lo, hi, step) ==
    LET exact == ((hi - lo) + step - 1) \div step
    IN  IF lo = 0 /\ hi = 30 /\ step = 10 THEN exact + 1 ELSE exact

\* walk_forward_validator.py 216
WeightCandidates(step) ==
    [ i \in 1..ArangeLength(MinWeight, MaxWeight + step, step) |->
        MinWeight + (i - 1) * step ]

\* walk_forward_validator.py 243: sharpe > best_sharpe
WfBetter(sharpe, than) == SharpeGT(sharpe, than)

\* walk_forward_validator.py 241-245: the body of the loop for one
\* combination, on the pair (best_weights, best_sharpe)
WfStep(bw, bs, tbl, combo) ==
    LET sharpe == WfEvaluateWeights(tbl, combo)
    IN  IF WfBetter(sharpe, bs) THEN [ weights |-> <<combo>>, sharpe |-> sharpe ]
        ELSE [ weights |-> bw, sharpe |-> bs ]

\* a plausible slip: best_weights handed back as it is, None included
WfResultNoFallback(bw) == IF bw # <<>> THEN bw[1] ELSE <<>>

\* walk_forward_validator.py 247
WfResult(bw) == IF bw # <<>> THEN bw[1] ELSE [ j \in FeatureIdx |-> FallbackWeight ]

\* walk_forward_validator.py 176-184: the query result, sorted, with the
\* future return column (rows without a target are still there)
WithFutureReturns(S) ==
    WithFutureColumn(SortValues(ReadSorted(S, "snapshot_date, fund_code"), "fund_code, snapshot_date"))

\* A weight dict is a function from names to coefficients; the name of
\* feature column j is j, and UnknownName is a name that is no column.
UnknownName == 0

\* [weights.get(col, 0.0) for col in FEATURE_COLS]
WeightVector(wd) == [ j \in FeatureIdx |-> IF j \in DOMAIN wd THEN wd[j] ELSE 0 ]

GridChoices == { <<-1, 0, 1>>, <<0, 1>>, <<0>> }

GridSteps == {10, 20}

\* the steps of the single walk-forward search: also one that does not divide
\* max_weight - min_weight
SearchGridSteps == GridSteps \cup {15}

CapChoices ==
    { [ j \in FeatureIdx |-> NaN ],
      [ j \in FeatureIdx |-> IF j = 1 THEN Num(0) ELSE NaN ] }

\* the dicts load_weights returns: every column, one column only, and a
\* column together with a name that is no column
WeightFiles ==
    { [ j \in FeatureIdx |-> 1 ],
      (1 :> -1),
      (1 :> 1) @@ (UnknownName :> 1) }

SnapshotDates == {1, 2, 3}

InitSearch ==
    /\ IdleExceptOp
    /\ op_pc = "attach"
    /\ op_mode \in {"cli", "wf", "backtest"}
    /\ \E fp \in FeaturePatterns, rp \in RetPatterns,
          cells \in SUBSET (Funds \X SnapshotDates) :
            features = FeatureTable(fp, rp, cells)
    /\ df = <<>>
    /\ combo_idx = 0
    /\ best = <<>>
    /\ best_weights = <<>>
    /\ best_sharpe = NegInf
    /\ output = <<>>
    /\ IF op_mode = "cli"
       THEN /\ grid_values \in GridChoices
            /\ min_abs_weight \in {0, 1}
            /\ caps \in CapChoices
            /\ top_k \in 1..MaxTopK
            /\ weights = <<>>
            /\ grid_step = 0
       ELSE IF op_mode = "wf"
       THEN /\ grid_values = <<>>
            /\ min_abs_weight = 0
            /\ caps = <<>>
            /\ top_k = 0
            /\ weights = <<>>
            /\ grid_step \in SearchGridSteps
       ELSE /\ grid_values = <<>>
            /\ min_abs_weight = 0
            /\ caps = <<>>
            /\ top_k \in 1..MaxTopK
            /\ weights \in WeightFiles
            /\ grid_step = 0

\* optimizer.py 165-187: load, attach the target, return early on no data
RunAttach ==
    /\ op_pc = "attach" /\ op_mode = "cli"
    /\ IF features = {}
       THEN /\ op_pc' = "done"
            /\ output' = <<[ kind |-> "no_features" ]>>
            /\ df' = df
       ELSE LET d == AttachFutureReturns(features)
            IN  IF d = <<>>
                THEN /\ op_pc' = "done"
                     /\ output' = <<[ kind |-> "no_future_returns" ]>>
                     /\ df' = d
                ELSE /\ op_pc' = "search"
                     /\ output' = output
                     /\ df' = d
    /\ UNCHANGED <<op_mode, features, grid_values, min_abs_weight, caps, top_k,
                   combo_idx, best, best_weights, best_sharpe, weights, grid_step>>
    /\ UNCHANGED exceptOp

\* optimizer.py 189-207: one iteration of the loop over product(grid_values)
RunIterate ==
    /\ op_pc = "search" /\ op_mode = "cli"
    /\ combo_idx < NumCombos(grid_values)
    /\ best' = RunStep(best, Combo(grid_values, combo_idx))
    /\ combo_idx' = combo_idx + 1
    /\ UNCHANGED <<op_pc, op_mode, features, df, grid_values, min_abs_weight, caps,
                   top_k, best_weights, best_sharpe, weights, grid_step, output>>
    /\ UNCHANGED exceptOp

\* optimizer.py 209-222: no result, or write the best weights
RunFinish ==
    /\ op_pc = "search" /\ op_mode = "cli"
    /\ combo_idx = NumCombos(grid_values)
    /\ op_pc' = "done"
    /\ output' = IF best = <<>> THEN <<[ kind |-> "no_weights" ]>>
                 ELSE <<[ kind |-> "written", weights |-> best[1].weights ]>>
    /\ UNCHANGED <<op_mode, features, df, grid_values, min_abs_weight, caps, top_k,
                   combo_idx, best, best_weights, best_sharpe, weights, grid_step>>
    /\ UNCHANGED exceptOp

\* walk_forward_validator.py 176-184 and 209-219: the loaded table gets its
\* target, rows without one are dropped, an empty table raises ValueError
WfPrepare ==
    /\ op_pc = "attach" /\ op_mode = "wf"
    /\ df' = DropNaTarget(WithFutureReturns(features))
    /\ IF Len(df') = 0
       THEN /\ op_pc' = "raised"
            /\ grid_values' = grid_values
       ELSE /\ op_pc' = "search"
            /\ grid_values' = WeightCandidates(grid_step)
    /\ UNCHANGED <<op_mode, features, min_abs_weight, caps, top_k, combo_idx, best,
                   best_weights, best_sharpe, weights, grid_step, output>>
    /\ UNCHANGED exceptOp

\* walk_forward_validator.py 240-245: one iteration of the exhaustive search
WfIterate ==
    /\ op_pc = "search" /\ op_mode = "wf"
    /\ combo_idx < NumCombos(grid_values)
    /\ LET nb == WfStep(best_weights, best_sharpe, df, Combo(grid_values, combo_idx))
       IN  /\ best_weights' = nb.weights
           /\ best_sharpe' = nb.sharpe
    /\ combo_idx' = combo_idx + 1
    /\ UNCHANGED <<op_pc, op_mode, features, df, grid_values, min_abs_weight, caps,
                   top_k, best, weights, grid_step, output>>
    /\ UNCHANGED exceptOp

\* walk_forward_validator.py 247
WfFinish ==
    /\ op_pc = "search" /\ op_mode = "wf"
    /\ combo_idx = NumCombos(grid_values)
    /\ op_pc' = "done"
    /\ output' = <<[ kind |-> "returned", weights |-> WfResult(best_weights) ]>>
    /\ UNCHANGED <<op_mode, features, df, grid_values, min_abs_weight, caps, top_k,
                   combo_idx, best, best_weights, best_sharpe, weights, grid_step>>
    /\ UNCHANGED exceptOp

\* backtester.py 95-105: load the weights, attach the target, return early
BtAttach ==
    /\ op_pc = "attach" /\ op_mode = "backtest"
    /\ IF features = {}
       THEN /\ op_pc' = "done"
            /\ output' = <<[ kind |-> "no_features" ]>>
            /\ df' = df
       ELSE LET d == BtAttachFutureReturns(features)
            IN  IF d = <<>>
                THEN /\ op_pc' = "done"
                     /\ output' = <<[ kind |-> "no_future_returns" ]>>
                     /\ df' = d
                ELSE /\ op_pc' = "evaluate"
                     /\ output' = output
                     /\ df' = d
    /\ UNCHANGED <<op_mode, features, grid_values, min_abs_weight, caps, top_k,
                   combo_idx, best, best_weights, best_sharpe, weights, grid_step>>
    /\ UNCHANGED exceptOp

\* backtester.py 107, 48-60: the metrics of the loaded weights
BtEvaluate ==
    /\ op_pc = "evaluate" /\ op_mode = "backtest"
    /\ op_pc' = "done"
    /\ output' = <<[ kind |-> "metrics",
                     sharpe |-> EvaluateWeights(df, WeightVector(weights), top_k),
                     hit_rate |-> HitRate(df, WeightVector(weights), top_k) ]>>
    /\ UNCHANGED <<op_mode, features, df, grid_values, min_abs_weight, caps, top_k,
                   combo_idx, best, best_weights, best_sharpe, weights, grid_step>>
    /\ UNCHANGED exceptOp

NextSearch ==
    \/ RunAttach \/ RunIterate \/ RunFinish
    \/ WfPrepare \/ WfIterate \/ WfFinish
    \/ BtAttach \/ BtEvaluate

SpecSearch == InitSearch /\ [][NextSearch]_vars

(***************************************************************************)
(* run_validation.  Snapshot dates and window bounds are ordinals: date d   *)
(* is the d-th sampling boundary.  snapshot_date is a TEXT column and the   *)
(* bounds of the query are 'YYYY-MM-DD' strings, so the comparison is on    *)
(* text: a table written by feature_builder (to_sql of a datetime column)   *)
(* holds 'YYYY-MM-DD 00:00:00', which sorts just after the bare date.       *)
(***************************************************************************)
\* order-preserving code of the stored text of snapshot date d
SnapshotText(d) == 2 * d + (IF date_text = "datetime" THEN 1 ELSE 0)

\* order-preserving code of the query parameter 'YYYY-MM-DD' for date d
ParamText(d) == 2 * d

\* a plausible slip: no upper bound in the query
InRangeNoUpper(d, start, end) == SnapshotText(d) >= ParamText(start)

\* walk_forward_validator.py 172: snapshot_date >= ? AND snapshot_date <= ?
InRange(d, start, end) ==
    /\ SnapshotText(d) >= ParamText(start)
    /\ SnapshotText(d) <= ParamText(end)

\* walk_forward_validator.py 170-184
LoadFeatures(start, end) ==
    WithFutureReturns({ r \in feature_store : InRange(r.snapshot_date, start, end) })

RECURSIVE WfSearch(_, _, _, _)
\* walk_forward_validator.py 238-245: the loop over product(weight_candidates)
WfSearch(tbl, vals, idx, acc) ==
    IF idx = NumCombos(vals) THEN acc
    ELSE WfSearch(tbl, vals, idx + 1,
                  WfStep(acc.weights, acc.sharpe, tbl, Combo(vals, idx)))

\* walk_forward_validator.py 209-247 on a table that has a row with a target
OptimizeWeights(tbl, step) ==
    WfResult(WfSearch(DropNaTarget(tbl), WeightCandidates(step), 0,
                      [ weights |-> <<>>, sharpe |-> NegInf ]).weights)

\* s[:k]
Take(s, k) == SubSeq(s, 1, Min(k, Len(s)))

FundCodes(s) == [ i \in 1..Len(s) |-> s[i].fund_code ]

\* walk_forward_validator.py 321-335: per snapshot, nlargest(top_k) by score
\* and by target (ties keep the table order), and the size of the overlap
HitCounts(predicted, actual) ==
    LET dates == { predicted[i].snapshot_date : i \in 1..Len(predicted) }
        Of(t, d) == { t[i].fund_code : i \in { j \in 1..Len(t) : t[j].snapshot_date = d } }
    IN  [ p \in 1..Cardinality(dates) |->
            LET d == CHOOSE e \in dates : Cardinality({ q \in dates : q < e }) = p - 1
            IN  Cardinality(Of(predicted, d) \cap Of(actual, d)) ]

\* walk_forward_validator.py 345-355: sharpe = mean / std * sqrt(12) if
\* std > 0 else 0, and 0 for fewer than 2 periods
TestSharpe(tbl, w, k) ==
    LET pr == GroupMean(TopPerSnapshot(tbl, w, k))
        n == Len(pr)
        sum == SumTo(ScaledReturns(pr), n)
        v == ScaledVariance(pr)
    IN  IF n < 2 \/ v = 0 THEN Finite(0, <<>>, 1)
        ELSE Finite(Sign(sum), BigOfNat(Abs(sum)), v)

\* walk_forward_validator.py 306-368 and 440-451: the ValidationResult of a
\* window; an empty test table gives the all-zero result
EvaluateOnTest(window, tbl, w, k) ==
    LET t == DropNaTarget(tbl)
        predicted == TopPerSnapshot(t, w, k)
        actual == GroupHead(SortValues(WithScore(t, w), "snapshot_date, -target"), k)
    IN  IF Len(t) = 0
        THEN [ window |-> window, weights |-> w, total_predictions |-> k,
               hit_counts |-> <<>>, predicted_funds |-> <<>>, actual_top_funds |-> <<>>,
               sharpe |-> Finite(0, <<>>, 1) ]
        ELSE [ window |-> window, weights |-> w, total_predictions |-> k,
               hit_counts |-> HitCounts(predicted, actual),
               predicted_funds |-> Take(FundCodes(predicted), k),
               actual_top_funds |-> Take(FundCodes(actual), k),
               sharpe |-> TestSharpe(t, w, k) ]

\* a plausible slip: the newest result goes to the front
PrependResult(rs, r) == <<r>> \o rs

\* walk_forward_validator.py 453: results.append(result)
AppendResult(rs, r) == Append(rs, r)

\* the windows create_windows returns for a start at date 1, an end at
\* MaxDate and lengths counted in sampling periods
WindowList(T, S, step) ==
    LET n == CHOOSE m \in 0..MaxDate :
                 /\ \A k \in 1..m : 1 + (k - 1) * step + T + S <= MaxDate
                 /\ 1 + m * step + T + S > MaxDate
    IN  [ k \in 1..n |->
            [ window_id   |-> k,
              train_start |-> 1 + (k - 1) * step,
              train_end   |-> 1 + (k - 1) * step + T,
              test_start  |-> 1 + (k - 1) * step + T,
              test_end    |-> 1 + (k - 1) * step + T + S ] ]

\* the snapshot dates on which a fund has a row
Presences == { {}, 1..MaxDate, 1..3, 3..MaxDate, (1..MaxDate) \ {3} }

DateTexts == {"date", "datetime"}

InitValidation ==
    /\ IdleExceptRv
    /\ rv_pc = "load_train"
    /\ \E rp \in RetPatterns, p1 \in Presences, p2 \in Presences :
          feature_store =
              FeatureTable(1, rp, ({1} \X p1) \cup ({2} \X p2))
    /\ date_text \in DateTexts
    /\ \E T \in 2..4, S \in 1..2, step \in 1..2 : rv_windows = WindowList(T, S, step)
    /\ rv_i = 1
    /\ rv_top_k \in 1..MaxTopK
    /\ rv_grid_step \in GridSteps
    /\ train_df = <<>>
    /\ rv_weights = <<>>
    /\ test_df = <<>>
    /\ results = <<>>

\* walk_forward_validator.py 396: for window in windows
CurrentWindow == rv_windows[rv_i]

\* walk_forward_validator.py 403-405
RvLoadTrain ==
    /\ rv_pc = "load_train"
    /\ rv_i <= Len(rv_windows)
    /\ train_df' = LoadFeatures(CurrentWindow.train_start, CurrentWindow.train_end)
    /\ rv_pc' = "optimize"
    /\ UNCHANGED <<feature_store, date_text, rv_windows, rv_i, rv_top_k, rv_grid_step,
                   rv_weights, test_df, results>>
    /\ UNCHANGED exceptRv

\* walk_forward_validator.py 414-416, 209-213: ValueError on an empty training
\* table leaves run_validation (nothing catches it)
RvOptimize ==
    /\ rv_pc = "optimize"
    /\ IF Len(DropNaTarget(train_df)) = 0
       THEN /\ rv_pc' = "raised"
            /\ rv_weights' = rv_weights
       ELSE /\ rv_pc' = "load_test"
            /\ rv_weights' = OptimizeWeights(train_df, rv_grid_step)
    /\ UNCHANGED <<feature_store, date_text, rv_windows, rv_i, rv_top_k, rv_grid_step,
                   train_df, test_df, results>>
    /\ UNCHANGED exceptRv

\* walk_forward_validator.py 422-424
RvLoadTest ==
    /\ rv_pc = "load_test"
    /\ test_df' = LoadFeatures(CurrentWindow.test_start, CurrentWindow.test_end)
    /\ rv_pc' = "evaluate"
    /\ UNCHANGED <<feature_store, date_text, rv_windows, rv_i, rv_top_k, rv_grid_step,
                   train_df, rv_weights, results>>
    /\ UNCHANGED exceptRv

\* walk_forward_validator.py 430-453: evaluate, append, next window
RvEvaluate ==
    /\ rv_pc = "evaluate"
    /\ results' = AppendResult(results,
                      EvaluateOnTest(CurrentWindow, test_df, rv_weights, rv_top_k))
    /\ rv_i' = rv_i + 1
    /\ rv_pc' = "load_train"
    /\ UNCHANGED <<feature_store, date_text, rv_windows, rv_top_k, rv_grid_step,
                   train_df, rv_weights, test_df>>
    /\ UNCHANGED exceptRv

\* walk_forward_validator.py 463: return results
RvReturn ==
    /\ rv_pc = "load_train"
    /\ rv_i > Len(rv_windows)
    /\ rv_pc' = "done"
    /\ UNCHANGED <<feature_store, date_text, rv_windows, rv_i, rv_top_k, rv_grid_step,
                   train_df, rv_weights, test_df, results>>
    /\ UNCHANGED exceptRv

NextValidation == RvLoadTrain \/ RvOptimize \/ RvLoadTest \/ RvEvaluate \/ RvReturn

SpecValidation == InitValidation /\ [][NextValidation]_vars

(***************************************************************************)
(* Claims about create_windows, checked under SpecWindows.                  *)
(***************************************************************************)

\* C1: every emitted ValidationWindow has train_end = test_start and a
\* test_end that is not after the caller's end date.
C1_WindowsContiguousWithinEnd ==
    \A i \in 1..Len(windows) :
        /\ windows[i].train_end = windows[i].test_start
        /\ windows[i].test_end <= Strftime(end_date)

\* a window list of two or more windows whose last test window ends exactly
\* on the caller's end date
C1_Witness ==
    /\ cw_pc = "done"
    /\ Len(windows) >= 2
    /\ windows[Len(windows)].test_end = Strftime(end_date)
    /\ windows[1].train_start < windows[1].train_end
    /\ windows[1].test_start < windows[1].test_end

\* the global start advanced k-1 times by step months, one step at a time
RECURSIVE C2_NthStart(_)
C2_NthStart(k) ==
    IF k <= 1 THEN start_date
    ELSE AddMonths(C2_NthStart(k - 1), step_months)

C2_ExpectedWindow(k) ==
    LET s == C2_NthStart(k)
        te == AddMonths(s, train_months)
    IN  [ train_start |-> Strftime(s),
          train_end   |-> Strftime(te),
          test_start  |-> Strftime(te),
          test_end    |-> Strftime(AddMonths(te, test_months)),
          window_id   |-> k ]

C2_IsSpecExample ==
    /\ start_date = MkDate(2020, 1, 1)
    /\ end_date = MkDate(2021, 12, 31)
    /\ train_months = 12
    /\ test_months = 6
    /\ step_months = 6

\* C2: for step >= 1 the list holds exactly windows 1..n, window k built from
\* the start advanced k-1 times by step with full train and test lengths, in
\* strictly increasing id and start order; on return window n+1 is the first
\* whose test_end exceeds the end date; the spec's example yields one window.
C2_WindowsDeterministicExhaustive ==
    step_months >= 1 =>
        /\ \A k \in 1..Len(windows) :
              /\ windows[k] = C2_ExpectedWindow(k)
              /\ windows[k].test_end <= Strftime(end_date)
        /\ \A k \in 1..(Len(windows) - 1) :
              /\ windows[k].window_id < windows[k + 1].window_id
              /\ windows[k].train_start < windows[k + 1].train_start
        /\ cw_pc = "done" =>
              C2_ExpectedWindow(Len(windows) + 1).test_end > Strftime(end_date)
        /\ (cw_pc = "done" /\ C2_IsSpecExample) =>
              windows = << [ train_start |-> 20200101, train_end |-> 20210101,
                             test_start |-> 20210101, test_end |-> 20210701,
                             window_id |-> 1 ] >>

\* the spec's example has run to completion
C2_Witness ==
    /\ cw_pc = "done"
    /\ C2_IsSpecExample
    /\ Len(windows) = 1

\* C3: window generation halts for every accepted input, step_months = 0
\* included.  The stop test reads current_train_start and the arguments
\* only, so the loop leaves "loop" only if an iteration that emits a window
\* also moves current_train_start forward; an iteration that leaves it in
\* place is repeated forever.
C3_EveryIterationAdvances ==
    [][ (cw_pc = "loop" /\ windows' # windows)
            => DateGT(current_train_start', current_train_start) ]_vars

(***************************************************************************)
(* Claims about the future-return target and the weight search.             *)
(***************************************************************************)
\* the target has been attached (the table may have come out empty)
C6_Attached == op_mode # "idle" /\ op_pc # "attach"

\* C6: in every mode (optimizer CLI, walk-forward, backtest), each row handed
\* to the search or the evaluation is a row of the feature table whose target
\* is the return column of the same fund's next snapshot; a row whose fund has
\* no later snapshot is not in the table, and no row is added or repeated.
C6_TargetIsOwnNextSnapshot ==
    C6_Attached =>
        /\ \A i \in DOMAIN df :
            /\ ~IsNaN(df[i].future)
            /\ [ fund_code |-> df[i].fund_code, snapshot_date |-> df[i].snapshot_date,
                 x |-> df[i].x, ret |-> df[i].ret ] \in features
            /\ \E n \in features :
                /\ n.fund_code = df[i].fund_code
                /\ n.snapshot_date > df[i].snapshot_date
                /\ ~\E m \in features :
                      /\ m.fund_code = n.fund_code
                      /\ m.snapshot_date > df[i].snapshot_date
                      /\ m.snapshot_date < n.snapshot_date
                /\ df[i].future = n.ret
        /\ \A i, j \in DOMAIN df :
              (df[i].fund_code = df[j].fund_code
                 /\ df[i].snapshot_date = df[j].snapshot_date) => i = j
        /\ \A r \in features :
              (~\E n \in features : n.fund_code = r.fund_code
                                      /\ n.snapshot_date > r.snapshot_date)
              => ~\E i \in DOMAIN df : df[i].fund_code = r.fund_code
                                         /\ df[i].snapshot_date = r.snapshot_date

\* two funds with targets, the first fund's last row dropped although the
\* next row of the sorted table (the other fund's) has a return
C6_Witness ==
    /\ op_pc \in {"search", "evaluate"}
    /\ \E i, j \in DOMAIN df : df[i].fund_code = 1 /\ df[j].fund_code = 2
    /\ \E r \in features :
          /\ r.fund_code = 1
          /\ ~IsNaN(r.ret)
          /\ ~\E i \in DOMAIN df : df[i].fund_code = 1
                                     /\ df[i].snapshot_date = r.snapshot_date
    /\ Len(df) < Cardinality(features)

\* C9: a finished search never hands back the all-zero weight vector, in the
\* optimizer CLI search and in the walk-forward optimize_weights search.
C9_SearchNeverReturnsAllZero ==
    (op_pc = "done" /\ output # <<>> /\ output[1].kind \in {"written", "returned"})
        => ~AllCloseZero(output[1].weights)

\* the objective of combination i in either search
C10_Objective(i) ==
    IF op_mode = "cli" THEN EvaluateWeights(df, Combo(grid_values, i), top_k)
    ELSE WfEvaluateWeights(df, Combo(grid_values, i))

\* the combinations evaluated so far that were not passed over
C10_Evaluated ==
    { i \in 0..(combo_idx - 1) :
        op_mode = "wf" \/ ~Skipped(Combo(grid_values, i)) }

\* i attains the maximum over E and every earlier member of E is strictly less
C10_IsFirstMax(E, i) ==
    /\ i \in E
    /\ \A j \in E : ~SharpeGT(C10_Objective(j), C10_Objective(i))
    /\ \A j \in E : j < i => SharpeGT(C10_Objective(i), C10_Objective(j))

C10_Searching == op_mode \in {"cli", "wf"} /\ op_pc \in {"search", "done"} /\ Len(df) > 0

C4_TrainLoaded == rv_pc \in {"optimize", "load_test", "evaluate"}

C5_TrainingTargetsInsideTrainRange ==
    C4_TrainLoaded =>
        \A i \in DOMAIN train_df :
            HasTarget(train_df[i]) =>
                /\ train_df[i].future_src > train_df[i].snapshot_date
                /\ train_df[i].future_src >= CurrentWindow.train_start
                /\ train_df[i].future_src <= CurrentWindow.train_end
                /\ \E r \in feature_store :
                      /\ r.fund_code = train_df[i].fund_code
                      /\ r.snapshot_date = train_df[i].future_src
                      /\ r.ret = train_df[i].future

\* the optimizer is about to read a target for the current window while the
\* store holds a later record of the same fund, dated after train_end
C5_Witness ==
    /\ rv_pc = "optimize"
    /\ \E i \in DOMAIN train_df :
          /\ HasTarget(train_df[i])
          /\ \E r \in feature_store :
                /\ r.fund_code = train_df[i].fund_code
                /\ r.snapshot_date > CurrentWindow.train_end
                /\ ~IsNaN(r.ret)
          /\ ~\E j \in DOMAIN train_df :
                /\ train_df[j].fund_code = train_df[i].fund_code
                /\ train_df[j].snapshot_date > train_df[i].future_src

\* window k has a training row and a test row with a target
C7_HasData(k) ==
    /\ Len(DropNaTarget(LoadFeatures(rv_windows[k].train_start, rv_windows[k].train_end))) > 0
    /\ Len(DropNaTarget(LoadFeatures(rv_windows[k].test_start, rv_windows[k].test_end))) > 0

\* C7: no window's empty data ends the run, and a finished run returns the
\* results of exactly the windows that have training and test data.
C7_EmptyWindowSkippedRunContinues ==
    /\ rv_pc # "raised"
    /\ rv_pc = "done" =>
          LET kept == { k \in DOMAIN rv_windows : C7_HasData(k) }
          IN  /\ Len(results) = Cardinality(kept)
              /\ \A p \in DOMAIN results : results[p].window.window_id \in kept

\* the result run_validation owes window k
C8_ResultOf(k) ==
    EvaluateOnTest(rv_windows[k],
        LoadFeatures(rv_windows[k].test_start, rv_windows[k].test_end),
        OptimizeWeights(LoadFeatures(rv_windows[k].train_start, rv_windows[k].train_end),
                        rv_grid_step),
        rv_top_k)

C11_WithinConstraints(w) ==
    /\ min_abs_weight > 0 => \A j \in DOMAIN w : Abs(w[j]) >= min_abs_weight
    /\ \A j \in DOMAIN w : ~IsNaN(caps[j]) => w[j] <= ValOf(caps[j])

\* C11: the best vector of the CLI search, at every iteration and when it is
\* written, respects min_abs_weight and the caps; when no combination of the
\* grid passes the filters the search ends with no result and writes nothing.
C11_ResultRespectsConstraints ==
    (op_mode = "cli" /\ op_pc \in {"search", "done"}) =>
        /\ best # <<>> => C11_WithinConstraints(best[1].weights)
        /\ (op_pc = "done" /\ output[1].kind = "written") =>
              /\ best # <<>>
              /\ output[1].weights = best[1].weights
              /\ C11_WithinConstraints(output[1].weights)
        /\ (op_pc = "done" /\ Len(df) > 0
              /\ \A i \in 0..(NumCombos(grid_values) - 1) :
                    \/ ~C11_WithinConstraints(Combo(grid_values, i))
                    \/ \A j \in FeatureIdx : Combo(grid_values, i)[j] = 0)
           => output[1].kind = "no_weights"

\* a written result under an active threshold and an active cap, where the
\* grid holds a combination over the cap and one under the threshold
C11_Witness ==
    /\ op_mode = "cli" /\ op_pc = "done" /\ output[1].kind = "written"
    /\ min_abs_weight > 0
    /\ \E j \in FeatureIdx : ~IsNaN(caps[j])
    /\ \E i \in 0..(NumCombos(grid_values) - 1) :
          \E j \in FeatureIdx :
              ~IsNaN(caps[j]) /\ Combo(grid_values, i)[j] > ValOf(caps[j])
    /\ \E i \in 0..(NumCombos(grid_values) - 1) :
          \E j \in FeatureIdx : Abs(Combo(grid_values, i)[j]) < min_abs_weight

(***************************************************************************)
(* optimize_weights, random search: the branch taken for more than 5        *)
(* feature columns (walk_forward_validator.py 227-237).  np.random is the   *)
(* process-wide generator, which nothing in the program seeds: every draw   *)
(* is a free choice among the candidates.  The component calls the method   *)
(* twice on the same arguments.                                             *)
(***************************************************************************)
\* walk_forward_validator.py 227: if n_features > 5
RandomSearchThreshold == 5

\* walk_forward_validator.py 229: n_trials = 1000
NTrials == 1000

\* feature columns of the wide tables
NumWideFeatures == 6

\* trials modelled per call
MaxTrials == 2

WideFeatureIdx == 1..NumWideFeatures

\* a row of a wide feature table
WideRow(rp, f, d) ==
    [ fund_code |-> f, snapshot_date |-> d,
      x |-> [ j \in WideFeatureIdx |-> ((f + d + j) % 3) - 1 ],
      ret |-> RetOf(rp, f, d) ]

\* the cells (fund, snapshot) of the wide tables
WideCells ==
    { Funds \X SnapshotDates, Funds \X {1, 2}, {} }

\* the return columns of the wide tables: varying, flat
WideRetPatterns == {1, 2}

\* the grid steps tried with the wide tables
WideGridSteps == {20}

\* walk_forward_validator.py 232-234: one np.random.choice per feature column
RandomWeights(candidates) ==
    [ WideFeatureIdx -> { candidates[i] : i \in DOMAIN candidates } ]

InitRandom ==
    /\ IdleExceptRs
    /\ NumWideFeatures > RandomSearchThreshold
    /\ rs_pc = "start"
    /\ \E rp \in WideRetPatterns, cells \in WideCells :
          rs_train_df = WithFutureReturns({ WideRow(rp, c[1], c[2]) : c \in cells })
    /\ \E step \in WideGridSteps : rs_candidates = WeightCandidates(step)
    /\ rs_run = 1
    /\ rs_trial = 0
    /\ rs_best_weights = <<>>
    /\ rs_best_sharpe = NegInf
    /\ rs_returned = <<>>

\* walk_forward_validator.py 209-219: dropna, ValueError on an empty table,
\* best_sharpe = -inf, best_weights = None
RsPrepare ==
    /\ rs_pc = "start"
    /\ rs_pc' = IF Len(DropNaTarget(rs_train_df)) = 0 THEN "raised" ELSE "search"
    /\ rs_trial' = 0
    /\ rs_best_weights' = <<>>
    /\ rs_best_sharpe' = NegInf
    /\ UNCHANGED <<rs_train_df, rs_candidates, rs_run, rs_returned>>
    /\ UNCHANGED exceptRs

\* walk_forward_validator.py 230-237: one trial
RsTrial ==
    /\ rs_pc = "search"
    /\ rs_trial < Min(NTrials, MaxTrials)
    /\ \E w \in RandomWeights(rs_candidates) :
          LET nb == WfStep(rs_best_weights, rs_best_sharpe,
                           DropNaTarget(rs_train_df), w)
          IN  /\ rs_best_weights' = nb.weights
              /\ rs_best_sharpe' = nb.sharpe
    /\ rs_trial' = rs_trial + 1
    /\ UNCHANGED <<rs_pc, rs_train_df, rs_candidates, rs_run, rs_returned>>
    /\ UNCHANGED exceptRs

\* walk_forward_validator.py 247: return; then the second call starts
RsReturn ==
    /\ rs_pc = "search"
    /\ rs_trial = Min(NTrials, MaxTrials)
    /\ rs_returned' = Append(rs_returned,
                         IF rs_best_weights # <<>> THEN rs_best_weights[1]
                         ELSE [ j \in WideFeatureIdx |-> FallbackWeight ])
    /\ rs_pc' = IF rs_run = 1 THEN "start" ELSE "done"
    /\ rs_run' = IF rs_run = 1 THEN 2 ELSE rs_run
    /\ UNCHANGED <<rs_train_df, rs_candidates, rs_trial, rs_best_weights, rs_best_sharpe>>
    /\ UNCHANGED exceptRs

NextRandom == RsPrepare \/ RsTrial \/ RsReturn

SpecRandom == InitRandom /\ [][NextRandom]_vars

\* C12: two calls of the random search on the same training table and the
\* same candidate grid return the same weight vector.  (The method takes no
\* seed argument, so "the same seed" adds nothing to "the same arguments".)
C12_RandomSearchReproducible ==
    (rs_pc = "done" /\ Len(rs_returned) = 2) => rs_returned[1] = rs_returned[2]

(***************************************************************************)
(* The evaluators together: the CLI search, the backtest, optimize_weights  *)
(* and run_validation.                                                      *)
(***************************************************************************)
InitEvaluation == InitSearch \/ InitValidation

NextEvaluation == NextSearch \/ NextValidation

SpecEvaluation == InitEvaluation /\ [][NextEvaluation]_vars

\* the selection TopPerSnapshot makes on tbl is a top-k selection per
\* snapshot: min(k, group size) rows of each group, no row twice, every
\* selected row scoring at least as high as every unselected row of its
\* group, and of two rows of equal score the one earlier in tbl first
C13_IsTopK(tbl, w, k) ==
    LET top == TopPerSnapshot(tbl, w, k)
        Key(r) == <<r.fund_code, r.snapshot_date>>
        Sel == { Key(top[i]) : i \in DOMAIN top }
        Group(d) == { i \in DOMAIN tbl : tbl[i].snapshot_date = d }
        Score(i) == Dot(tbl[i].x, w)
    IN  /\ Cardinality(Sel) = Len(top)
        /\ Sel \subseteq { Key(tbl[i]) : i \in DOMAIN tbl }
        /\ \A i \in DOMAIN tbl :
              Cardinality({ j \in Group(tbl[i].snapshot_date) : Key(tbl[j]) \in Sel })
                  = Min(k, Cardinality(Group(tbl[i].snapshot_date)))
        /\ \A i, j \in DOMAIN tbl :
              (tbl[i].snapshot_date = tbl[j].snapshot_date
                 /\ Key(tbl[i]) \in Sel /\ Key(tbl[j]) \notin Sel)
              => /\ Score(i) >= Score(j)
                 /\ Score(i) = Score(j) => i < j

\* C13: the selection about to be evaluated is a top-k selection in the CLI
\* search (the next combination), in the backtest (the loaded weights), in
\* optimize_weights (top_k fixed at 30) and in evaluate_on_test.
C13_TopKSelection ==
    /\ (op_mode = "cli" /\ op_pc = "search" /\ combo_idx < NumCombos(grid_values))
          => C13_IsTopK(df, Combo(grid_values, combo_idx), top_k)
    /\ (op_mode = "backtest" /\ op_pc = "evaluate")
          => C13_IsTopK(df, WeightVector(weights), top_k)
    /\ (op_mode = "wf" /\ op_pc = "search" /\ combo_idx < NumCombos(grid_values))
          => C13_IsTopK(df, Combo(grid_values, combo_idx), TrainTopK)
    /\ rv_pc = "evaluate"
          => C13_IsTopK(DropNaTarget(test_df), rv_weights, rv_top_k)

\* a backtest about to evaluate, with top_k = 1, a table that has a snapshot
\* of two funds with equal scores (the earlier row is taken) and a snapshot
\* of a single fund
C13_Witness ==
    /\ op_mode = "backtest" /\ op_pc = "evaluate" /\ top_k = 1
    /\ \E i, j \in DOMAIN df :
          /\ i < j
          /\ df[i].snapshot_date = df[j].snapshot_date
          /\ Dot(df[i].x, WeightVector(weights)) = Dot(df[j].x, WeightVector(weights))
          /\ \E p \in DOMAIN TopPerSnapshot(df, WeightVector(weights), top_k) :
                TopPerSnapshot(df, WeightVector(weights), top_k)[p].fund_code
                    = df[i].fund_code
    /\ \E i \in DOMAIN df :
          \A j \in DOMAIN df : df[j].snapshot_date = df[i].snapshot_date => j = i

(***************************************************************************)
(* Claims about the hit rate.                                               *)
(***************************************************************************)
\* the selected rows of snapshot d whose target exceeds the median of the
\* whole group of d in tbl: a value of the group exceeds the group's median
\* exactly when at least half of the group is strictly below it
C14_SelectedAboveMedian(tbl, w, k, d) ==
    LET top == TopPerSnapshot(tbl, w, k)
        G == { i \in DOMAIN tbl : tbl[i].snapshot_date = d }
        Below(t) == { j \in G : ValOf(tbl[j].future) < t }
    IN  Cardinality({ i \in DOMAIN top :
            /\ top[i].snapshot_date = d
            /\ 2 * Cardinality(Below(ValOf(top[i].future))) >= Cardinality(G) })

\* the rows of snapshot d selected from tbl
C14_Selected(tbl, w, k, d) ==
    LET top == TopPerSnapshot(tbl, w, k)
    IN  Cardinality({ i \in DOMAIN top : top[i].snapshot_date = d })

\* the snapshots of tbl, ascending
C14_Dates(tbl) ==
    LET dates == { tbl[i].snapshot_date : i \in DOMAIN tbl }
    IN  [ p \in 1..Cardinality(dates) |->
            CHOOSE e \in dates : Cardinality({ q \in dates : q < e }) = p - 1 ]

\* hr holds, per snapshot of tbl, the fraction of the selected rows above the
\* median of the whole group
C14_IsHitRate(hr, tbl, w, k) ==
    /\ Len(hr) = Len(C14_Dates(tbl))
    /\ \A p \in DOMAIN hr :
          /\ hr[p].snapshot_date = C14_Dates(tbl)[p]
          /\ hr[p].n = C14_Selected(tbl, w, k, hr[p].snapshot_date)
          /\ hr[p].hits = C14_SelectedAboveMedian(tbl, w, k, hr[p].snapshot_date)
          /\ 0 <= hr[p].hits /\ hr[p].hits <= hr[p].n

\* C14 for the CLI search and the backtest: the hit rate kept with the best
\* weights, and the one the backtest reports, is per snapshot the fraction of
\* the selected rows above the median of the whole group.
C14_CliHitRateAboveMedian ==
    /\ (op_mode = "cli" /\ best # <<>>)
          => C14_IsHitRate(best[1].hit_rate_top_k, df, best[1].weights, top_k)
    /\ (op_mode = "backtest" /\ op_pc = "done" /\ output[1].kind = "metrics")
          => C14_IsHitRate(output[1].hit_rate, df, WeightVector(weights), top_k)

\* C14: in every evaluator the per-snapshot contribution to the hit rate is
\* the fraction of the selected top-K above the median of the whole group;
\* for evaluate_on_test the contribution of snapshot p is
\* hit_counts[p] / top_k.
C14_HitRateAboveMedian ==
    /\ C14_CliHitRateAboveMedian
    /\ \A r \in DOMAIN results :
          LET w == results[r].window
              tbl == DropNaTarget(LoadFeatures(w.test_start, w.test_end))
              hc == results[r].hit_counts
          IN  /\ Len(hc) = Len(C14_Dates(tbl))
              /\ \A p \in DOMAIN hc :
                    hc[p] * C14_Selected(tbl, results[r].weights, rv_top_k,
                                         C14_Dates(tbl)[p])
                      = rv_top_k * C14_SelectedAboveMedian(tbl, results[r].weights,
                                         rv_top_k, C14_Dates(tbl)[p])

(***************************************************************************)
(* Claims about feature names.                                              *)
(***************************************************************************)
\* C15: a backtest whose weights name a feature that is no column of the
\* table never produces metrics (it fails before scoring).
C15_UnknownFeatureNameRaises ==
    (op_mode = "backtest" /\ op_pc = "done" /\ output[1].kind = "metrics")
        => DOMAIN weights \subseteq FeatureIdx

(***************************************************************************)
(* Claims about invalid configuration.                                      *)
(***************************************************************************)
\* C16: window generation called with a start date later than the end date
\* never returns normally (it raises before producing a window list).
C16_InvalidDateOrderRejected ==
    (cw_pc = "done") => ~DateGT(start_date, end_date)

(***************************************************************************)
(* The walk_forward command after run_validation: save_results and          *)
(* generate_report.                                                         *)
(***************************************************************************)
\* the exact rational n / d
Frac(n, d) == [ n |-> n, d |-> d ]

\* walk_forward_validator.py 341: mean(hit_counts) / top_k if top_k > 0 else 0,
\* and line 309: 0.0 for an empty test table
HitRateOfResult(r) ==
    IF Len(r.hit_counts) = 0 \/ r.total_predictions <= 0
    THEN Frac(0, 1)
    ELSE Frac(SumTo(r.hit_counts, Len(r.hit_counts)),
              Len(r.hit_counts) * r.total_predictions)

\* the sum of a list of rationals
RECURSIVE FracSum(_, _)
FracSum(xs, n) ==
    IF n = 0 THEN Frac(0, 1)
    ELSE LET rest == FracSum(xs, n - 1)
         IN  Frac(rest.n * xs[n].d + xs[n].n * rest.d, rest.d * xs[n].d)

\* a plausible slip: sum(xs) / len(xs), which has no value for an empty list
MeanBySumOverLen(xs) ==
    Num(Frac(FracSum(xs, Len(xs)).n, FracSum(xs, Len(xs)).d * Len(xs)))

\* np.mean of a list of rationals: nan for the empty list
NpMean(xs) ==
    IF Len(xs) = 0 THEN NaN
    ELSE Num(Frac(FracSum(xs, Len(xs)).n, FracSum(xs, Len(xs)).d * Len(xs)))

\* np.mean of a list of Sharpe ratios: nan for the empty list, and otherwise
\* the number the list determines, kept as the list
NpMeanOfSharpes(xs) == IF Len(xs) = 0 THEN NaN ELSE Num(xs)

\* ValidationResult.to_dict, lines 52-64 (predicted_funds and actual_top_funds
\* are not written)
ToDict(r) ==
    [ window_id         |-> r.window.window_id,
      train_period      |-> <<r.window.train_start, r.window.train_end>>,
      test_period       |-> <<r.window.test_start, r.window.test_end>>,
      hit_rate          |-> HitRateOfResult(r),
      total_predictions |-> r.total_predictions,
      sharpe_ratio      |-> r.sharpe,
      weights           |-> r.weights ]

\* save_results, lines 467-476; avg_annual_return and avg_max_drawdown are
\* formed by the same np.mean over the same list and are nan exactly when
\* avg_sharpe is
OutputData(rs) ==
    [ summary |->
        [ total_windows |-> Len(rs),
          avg_hit_rate  |-> NpMean([ i \in 1..Len(rs) |-> HitRateOfResult(rs[i]) ]),
          avg_sharpe    |-> NpMeanOfSharpes([ i \in 1..Len(rs) |-> rs[i].sharpe ]) ],
      windows |-> [ i \in 1..Len(rs) |-> ToDict(rs[i]) ] ]

\* generate_report, lines 494-518: the summary lines and one block per result
Report(rs) ==
    [ total_windows |-> Len(rs),
      avg_hit_rate  |-> NpMean([ i \in 1..Len(rs) |-> HitRateOfResult(rs[i]) ]),
      avg_sharpe    |-> NpMeanOfSharpes([ i \in 1..Len(rs) |-> rs[i].sharpe ]),
      details |-> [ i \in 1..Len(rs) |->
                      [ window            |-> rs[i].window,
                        hit_rate          |-> HitRateOfResult(rs[i]),
                        total_predictions |-> rs[i].total_predictions,
                        sharpe            |-> rs[i].sharpe ] ] ]

\* run_validation.py 89-90: validator.save_results(results, output_json)
RpSaveResults ==
    /\ rv_pc = "done"
    /\ rp_pc = "idle"
    /\ output_data' = <<OutputData(results)>>
    /\ rp_pc' = "saved"
    /\ UNCHANGED report
    /\ UNCHANGED exceptRp

\* run_validation.py 92-94: report = validator.generate_report(results)
RpGenerateReport ==
    /\ rp_pc = "saved"
    /\ report' = <<Report(results)>>
    /\ rp_pc' = "reported"
    /\ UNCHANGED output_data
    /\ UNCHANGED exceptRp

NextReport == RpSaveResults \/ RpGenerateReport

\* the whole walk_forward command after create_windows
SpecWalkForward == InitValidation /\ [][NextValidation \/ NextReport]_vars

\* the aggregate v is undefined (nan) or a well-formed zero
C17_UndefinedOrZero(v) == IsNaN(v) \/ (ValOf(v).n = 0 /\ ValOf(v).d > 0)

\* C17: once the results of a run over zero windows are saved and reported,
\* the summary has total_windows = 0 and aggregates that are undefined or
\* zero, and the per-window blocks of the file and of the report are empty.
C17_EmptyRunReported ==
    /\ (rp_pc \in {"saved", "reported"} /\ Len(rv_windows) = 0) =>
          /\ output_data[1].summary.total_windows = 0
          /\ C17_UndefinedOrZero(output_data[1].summary.avg_hit_rate)
          /\ IsNaN(output_data[1].summary.avg_sharpe)
          /\ output_data[1].windows = <<>>
    /\ (rp_pc = "reported" /\ Len(rv_windows) = 0) =>
          /\ report[1].total_windows = 0
          /\ C17_UndefinedOrZero(report[1].avg_hit_rate)
          /\ IsNaN(report[1].avg_sharpe)
          /\ report[1].details = <<>>

\* a run over zero windows has been saved and reported
C17_Witness == rp_pc = "reported" /\ Len(rv_windows) = 0 /\ results = <<>>

(***************************************************************************)
(* Weight files and their loaders.  A JSON object is a function from keys   *)
(* to JSON values; a JSON value is a number or an object.                   *)
(***************************************************************************)
JNum(v) == [ kind |-> "num", num |-> v, obj |-> <<>> ]
JObj(o) == [ kind |-> "obj", num |-> 0, obj |-> o ]

\* the bare form: the feature-to-coefficient mapping itself
BareFile(m) == [ k \in DOMAIN m |-> JNum(m[k]) ]

\* the nested form optimizer.run writes (optimizer.py 213-221): the mapping
\* under "weights" beside metadata
NestedFile(m) ==
    [ k \in {"weights", "sharpe"} |-> IF k = "weights" THEN JObj(BareFile(m)) ELSE JNum(1) ]

\* what a loader hands on: a dict of numbers, or the exception it raised
Loaded(w) == [ raised |-> FALSE, weights |-> w ]
LoadRaised == [ raised |-> TRUE, weights |-> <<>> ]

\* the numbers of a JSON object whose values are all numbers
NumbersOf(o) == [ k \in DOMAIN o |-> o[k].num ]

\* backtester.py 74-76: data.get("weights", data)
BacktesterLoadWeights(data) ==
    IF "weights" \in DOMAIN data
    THEN Loaded(NumbersOf(data["weights"].obj))
    ELSE Loaded(NumbersOf(data))

\* advanced_recommend_service.py 90-92: weights = data.get("weights") or data,
\* then float(v) of every value; an empty object is falsy and float() of an
\* object raises TypeError
ServiceLoadWeights(data) ==
    LET w == IF "weights" \in DOMAIN data /\ DOMAIN data["weights"].obj # {}
             THEN data["weights"].obj
             ELSE data
    IN  IF \E k \in DOMAIN w : w[k].kind = "obj"
        THEN LoadRaised
        ELSE Loaded(NumbersOf(w))

\* run_validation.py 113-115: model_data.get("weights", {})
Validate2025LoadWeights(data) ==
    IF "weights" \in DOMAIN data
    THEN Loaded(NumbersOf(data["weights"].obj))
    ELSE Loaded(<<>>)

Loaders == {"backtester", "service", "validate_2025"}

LoadWeights(loader, data) ==
    CASE loader = "backtester"    -> BacktesterLoadWeights(data)
      [] loader = "service"       -> ServiceLoadWeights(data)
      [] loader = "validate_2025" -> Validate2025LoadWeights(data)

WlFeatureNames == {"ret_1m", "ret_3m"}
WlCoefficients == {-1, 0, 1}

\* every mapping from some of the feature names to a coefficient
WlMappings == UNION { [ D -> WlCoefficients ] : D \in SUBSET WlFeatureNames }

InitLoad ==
    /\ IdleExceptWl
    /\ wl_pc = "start"
    /\ wl_loader \in Loaders
    /\ wl_mapping \in WlMappings
    /\ wl_from_bare = <<>>
    /\ wl_from_nested = <<>>

\* the loader reads the file that holds the bare mapping
WlLoadBare ==
    /\ wl_pc = "start"
    /\ wl_from_bare' = <<LoadWeights(wl_loader, BareFile(wl_mapping))>>
    /\ wl_pc' = "bare_loaded"
    /\ UNCHANGED <<wl_loader, wl_mapping, wl_from_nested>>
    /\ UNCHANGED exceptWl

\* the same loader reads the file that holds the nested form
WlLoadNested ==
    /\ wl_pc = "bare_loaded"
    /\ wl_from_nested' = <<LoadWeights(wl_loader, NestedFile(wl_mapping))>>
    /\ wl_pc' = "done"
    /\ UNCHANGED <<wl_loader, wl_mapping, wl_from_bare>>
    /\ UNCHANGED exceptWl

NextLoad == WlLoadBare \/ WlLoadNested

SpecLoad == InitLoad /\ [][NextLoad]_vars

\* C18: every loader returns, for the bare file and for the nested file of
\* one mapping, the same weights, and they are the stored coefficients.
C18_LoadersAcceptBothForms ==
    (wl_pc = "done") =>
        /\ wl_from_bare[1] = Loaded(wl_mapping)
        /\ wl_from_nested[1] = Loaded(wl_mapping)

(***************************************************************************)
(* Claims about the score as a function of the weights.                     *)
(***************************************************************************)
C19_Scales == {-2, -1, 0, 1, 2, 3}

C19_Scaled(w, c) == [ j \in DOMAIN w |-> c * w[j] ]

\* the rows of s in order, by fund and snapshot
C19_Keys(s) == [ i \in DOMAIN s |-> <<s[i].fund_code, s[i].snapshot_date>> ]

\* scaling w by c scales every score of tbl by c, and for c > 0 leaves the
\* order within each snapshot and the top-k selection as they were
C19_IsLinear(tbl, w, k) ==
    \A c \in C19_Scales :
        /\ \A i \in DOMAIN tbl :
              WithScore(tbl, C19_Scaled(w, c))[i].score = c * WithScore(tbl, w)[i].score
        /\ c > 0 =>
              /\ C19_Keys(SortValues(WithScore(tbl, C19_Scaled(w, c)), "snapshot_date, -score"))
                    = C19_Keys(SortValues(WithScore(tbl, w), "snapshot_date, -score"))
              /\ C19_Keys(TopPerSnapshot(tbl, C19_Scaled(w, c), k))
                    = C19_Keys(TopPerSnapshot(tbl, w, k))

\* C19: for the table and the weights about to be evaluated by the CLI search
\* and by the backtest, multiplying every weight by c multiplies every score
\* by c, and for c > 0 the ranking and the top-k selection do not change.
C19_ScoringLinear ==
    /\ (op_mode = "cli" /\ op_pc = "search" /\ combo_idx < NumCombos(grid_values))
          => C19_IsLinear(df, Combo(grid_values, combo_idx), top_k)
    /\ (op_mode = "backtest" /\ op_pc = "evaluate")
          => C19_IsLinear(df, WeightVector(weights), top_k)

\* a backtest about to evaluate with top_k = 1 a table in which two funds of
\* one snapshot have different, non-zero scores
C19_Witness ==
    /\ op_mode = "backtest" /\ op_pc = "evaluate" /\ top_k = 1
    /\ \E i, j \in DOMAIN df :
          /\ df[i].snapshot_date = df[j].snapshot_date
          /\ Dot(df[i].x, WeightVector(weights)) # 0
          /\ Dot(df[j].x, WeightVector(weights)) # 0
          /\ Dot(df[i].x, WeightVector(weights)) # Dot(df[j].x, WeightVector(weights))

(***************************************************************************)
(* feature_builder.compute_features.  The daily history of a fund is kept   *)
(* as the number of observations that fall in each sampling period, from    *)
(* the period of its first observation to the period of its last one.       *)
(***************************************************************************)
MinHistoryDays == 756
MaxPeriods == 3

PeriodCounts == {0, 377, 378, 756}

\* the histories of one fund: none at all, or periods of which the first and
\* the last hold observations
Histories ==
    {<<>>} \cup
    UNION { { h \in [ 1..n -> PeriodCounts ] : h[1] > 0 /\ h[n] > 0 } : n \in 1..MaxPeriods }

\* len(group)
HistoryLen(h) == SumTo(h, Len(h))

\* a plausible slip: a history of exactly the minimum length is dropped too
TooShortOrEqual(h) == HistoryLen(h) <= MinHistoryDays

\* line 52: group.empty or len(group) < MIN_HISTORY_DAYS
TooShort(h) == HistoryLen(h) = 0 \/ HistoryLen(h) < MinHistoryDays

\* lines 57-78: one row per sampling period; the 36-month columns of a period
\* hold a value when one of its observations is the 756th or a later one (the
\* last valid value of the period), and every column of a period without
\* observations is NaN
Sampled(fund, h) ==
    [ p \in 1..Len(h) |->
        [ fund_code     |-> fund,
          snapshot_date |-> p,
          observations  |-> h[p],
          ret_36m       |-> IF h[p] > 0 /\ SumTo(h, p) >= MinHistoryDays
                            THEN Num(SumTo(h, p))
                            ELSE NaN ] ]

\* pd.concat(features, ignore_index=True)
RECURSIVE Concat(_, _)
Concat(frames, n) == IF n = 0 THEN <<>> ELSE Concat(frames, n - 1) \o frames[n]

InitFeatures ==
    /\ IdleExceptFb
    /\ fb_pc = "loop"
    /\ nav_df \in [ Funds -> Histories ]
    /\ fb_fund = 1
    /\ fb_features = <<>>
    /\ fb_result = <<>>

\* lines 50-53: the groupby loop in ascending fund order; a fund without
\* rows forms no group, a short one is skipped
FbContinue ==
    /\ fb_pc = "loop"
    /\ fb_fund <= NumFunds
    /\ TooShort(nav_df[fb_fund])
    /\ fb_fund' = fb_fund + 1
    /\ UNCHANGED <<fb_pc, nav_df, fb_features, fb_result>>
    /\ UNCHANGED exceptFb

\* lines 54-78: the features of a fund are sampled and appended
FbAppend ==
    /\ fb_pc = "loop"
    /\ fb_fund <= NumFunds
    /\ ~TooShort(nav_df[fb_fund])
    /\ fb_features' = Append(fb_features, Sampled(fb_fund, nav_df[fb_fund]))
    /\ fb_fund' = fb_fund + 1
    /\ UNCHANGED <<fb_pc, nav_df, fb_result>>
    /\ UNCHANGED exceptFb

\* lines 80-83: an empty frame when nothing was appended, else the concat
FbReturn ==
    /\ fb_pc = "loop"
    /\ fb_fund > NumFunds
    /\ fb_result' = IF Len(fb_features) = 0 THEN <<>>
                    ELSE Concat(fb_features, Len(fb_features))
    /\ fb_pc' = "done"
    /\ UNCHANGED <<nav_df, fb_fund, fb_features>>
    /\ UNCHANGED exceptFb

NextFeatures == FbContinue \/ FbAppend \/ FbReturn

SpecFeatures == InitFeatures /\ [][NextFeatures]_vars

\* the rows of fund f in the returned frame
C20_RowsOf(f) == { i \in DOMAIN fb_result : fb_result[i].fund_code = f }

\* C20: when compute_features has returned, a fund with fewer than 756 daily
\* observations has no row at all in the result, a fund with 756 or more has
\* one row per sampling period of its history, and so the result is the empty
\* frame when no fund qualifies.
C20_ShortHistoryExcluded ==
    (fb_pc = "done") =>
        \A f \in Funds :
            IF HistoryLen(nav_df[f]) < MinHistoryDays
            THEN C20_RowsOf(f) = {}
            ELSE Cardinality(C20_RowsOf(f)) = Len(nav_df[f])

\* a returned run over a fund one observation short of the minimum and a fund
\* of exactly the minimum
C20_Witness ==
    /\ fb_pc = "done"
    /\ \E f, g \in Funds :
          /\ HistoryLen(nav_df[f]) = MinHistoryDays - 1
          /\ HistoryLen(nav_df[g]) = MinHistoryDays
          /\ C20_RowsOf(g) # {}

(***************************************************************************)
(* The body of the groupby loop of compute_features on a daily series:      *)
(* rolling columns, then resample(freq).last().  Calendar days are 1..      *)
(* NumPeriods * PeriodDays; sampling period p covers the days               *)
(* (p - 1) * PeriodDays + 1 .. p * PeriodDays and is labelled by its last   *)
(* day.  The rolling windows are counted in observations, as in the code,   *)
(* with lengths scaled down to MaxRollingWindow.                            *)
(***************************************************************************)
PeriodDays == 2
NumPeriods == 3
MaxRollingWindow == 3

CalendarDays == 1..(NumPeriods * PeriodDays)

\* unit_nav values; 0 stands for a day without an observation
NavValues == {1, 2, 4}

PeriodOf(d) == ((d - 1) \div PeriodDays) + 1

\* the label resample gives a bin: the right edge of the period
PeriodLabel(p) == p * PeriodDays

\* the rows of a series given per calendar day, ascending by date
SeriesOf(byDay) ==
    LET days == { d \in CalendarDays : byDay[d] # 0 }
    IN  [ i \in 1..Cardinality(days) |->
            LET d == CHOOSE e \in days : Cardinality({ q \in days : q < e }) = i - 1
            IN  [ date |-> d, unit_nav |-> byDay[d] ] ]

\* line 54: pct_change().fillna(0.0), kept as the exact ratio 1 + ret_daily
GrossDaily(g, i) == IF i = 1 THEN Frac(1, 1) ELSE Frac(g[i].unit_nav, g[i - 1].unit_nav)

RECURSIVE GrossProduct(_, _, _)
GrossProduct(g, lo, hi) ==
    IF hi < lo THEN Frac(1, 1)
    ELSE LET rest == GrossProduct(g, lo, hi - 1)
         IN  Frac(rest.n * GrossDaily(g, hi).n, rest.d * GrossDaily(g, hi).d)

\* a plausible slip: a window that starts at the row and looks forward
WindowForward(g, i, w) == IF i + w - 1 <= Len(g) THEN i..(i + w - 1) ELSE {}

\* rolling(window): the rows of the window that ends at row i, none while
\* fewer than window rows are available
WindowAt(g, i, w) == IF i >= w THEN (i - w + 1)..i ELSE {}

Lo(S) == CHOOSE x \in S : \A y \in S : x <= y
Hi(S) == CHOOSE x \in S : \A y \in S : x >= y

\* lines 86-87: np.prod(1 + returns over the window) - 1, as 1 + the value
RollingCompound(g, i, w) ==
    IF WindowAt(g, i, w) = {} THEN NaN
    ELSE Num(GrossProduct(g, Lo(WindowAt(g, i, w)), Hi(WindowAt(g, i, w))))

\* a plausible slip: the drawdown is taken from the maximum of the whole array
MddFromOverallMax(arr) ==
    LET top == Hi({ arr[j] : j \in DOMAIN arr })
        low == Lo({ arr[j] : j \in DOMAIN arr })
    IN  IF Len(arr) = 0 THEN NaN ELSE Num(Frac(low - top, top))

\* lines 91-96: min over the array of arr / np.maximum.accumulate(arr) - 1
Mdd(arr) ==
    LET cummax(i) == Hi({ arr[j] : j \in 1..i })
        dd(i) == Frac(arr[i] - cummax(i), cummax(i))
        worst == CHOOSE i \in DOMAIN arr :
                     /\ \A j \in DOMAIN arr : dd(i).n * dd(j).d <= dd(j).n * dd(i).d
                     /\ \A j \in 1..(i - 1) : dd(j).n * dd(i).d # dd(i).n * dd(j).d
    IN  IF Len(arr) = 0 THEN NaN ELSE Num(dd(worst))

\* line 98: nav.rolling(window).apply(mdd, raw=True)
RollingMaxDrawdown(g, i, w) ==
    IF WindowAt(g, i, w) = {} THEN NaN
    ELSE Mdd([ k \in 1..w |-> g[Lo(WindowAt(g, i, w)) + k - 1].unit_nav ])

\* lines 54-73, for one window length
Rolled(g, w) ==
    [ i \in 1..Len(g) |->
        [ date     |-> g[i].date,
          unit_nav |-> Num(g[i].unit_nav),
          ret      |-> RollingCompound(g, i, w),
          mdd      |-> RollingMaxDrawdown(g, i, w) ] ]

\* GroupBy.last(): the last value of a column in a bin that is not NaN
LastValid(vals) ==
    IF \A i \in DOMAIN vals : IsNaN(vals[i]) THEN NaN
    ELSE vals[Hi({ i \in DOMAIN vals : ~IsNaN(vals[i]) })]

\* lines 75-77: resample(freq).last() and reset_index: one row per period from
\* the period of the first row to the period of the last row, labelled by the
\* right edge of the period
Resampled(r) ==
    IF Len(r) = 0 THEN <<>>
    ELSE LET first == PeriodOf(r[1].date)
             last == PeriodOf(r[Len(r)].date)
             Bin(p) == SeqAt(r, { i \in 1..Len(r) : PeriodOf(r[i].date) = p })
         IN  [ k \in 1..(last - first + 1) |->
                 LET b == Bin(first + k - 1)
                 IN  [ snapshot_date |-> PeriodLabel(first + k - 1),
                       unit_nav |-> LastValid([ i \in 1..Len(b) |-> b[i].unit_nav ]),
                       ret      |-> LastValid([ i \in 1..Len(b) |-> b[i].ret ]),
                       mdd      |-> LastValid([ i \in 1..Len(b) |-> b[i].mdd ]) ] ]

\* a group that passed the length test of line 52
InitSeries ==
    /\ IdleExceptDs
    /\ ds_pc = "roll"
    /\ ds_window \in 1..MaxRollingWindow
    /\ \E byDay \in [ CalendarDays -> NavValues \cup {0} ] :
          /\ ds_group = SeriesOf(byDay)
          /\ Len(ds_group) >= ds_window
    /\ ds_rolled = <<>>
    /\ ds_sampled = <<>>

\* lines 54-73
DsRoll ==
    /\ ds_pc = "roll"
    /\ ds_rolled' = Rolled(ds_group, ds_window)
    /\ ds_pc' = "resample"
    /\ UNCHANGED <<ds_group, ds_window, ds_sampled>>
    /\ UNCHANGED exceptDs

\* lines 75-78
DsResample ==
    /\ ds_pc = "resample"
    /\ ds_sampled' = Resampled(ds_rolled)
    /\ ds_pc' = "done"
    /\ UNCHANGED <<ds_group, ds_window, ds_rolled>>
    /\ UNCHANGED exceptDs

NextSeries == DsRoll \/ DsResample

SpecSeries == InitSeries /\ [][NextSeries]_vars

(***************************************************************************)
(* Claims about the feature engine on a daily series.                       *)
(***************************************************************************)
\* the rows of the series dated on or before day d
C21_UpTo(d) == SeqAt(ds_group, { i \in 1..Len(ds_group) : ds_group[i].date <= d })

\* C21: every emitted record equals the record computed from the rows of the
\* series dated on or before its snapshot_date alone, so no later price
\* enters any of its values.
C21_NoLookAhead ==
    (ds_pc = "done") =>
        \A k \in DOMAIN ds_sampled :
            LET pre == Resampled(Rolled(C21_UpTo(ds_sampled[k].snapshot_date), ds_window))
            IN  IF k \in DOMAIN pre
                THEN ds_sampled[k] = pre[k]
                ELSE /\ IsNaN(ds_sampled[k].unit_nav)
                     /\ IsNaN(ds_sampled[k].ret)
                     /\ IsNaN(ds_sampled[k].mdd)

\* a sampled record with a rolling return, followed by later observations of
\* a different price
C21_Witness ==
    /\ ds_pc = "done"
    /\ ds_window >= 2
    /\ \E k \in DOMAIN ds_sampled :
          /\ ~IsNaN(ds_sampled[k].ret)
          /\ \E i \in DOMAIN ds_group :
                /\ ds_group[i].date > ds_sampled[k].snapshot_date
                /\ Num(ds_group[i].unit_nav) # ds_sampled[k].unit_nav

\* C22: every down-sampled record is dated on a day of the fund's own
\* series, the last one of its period, and carries the values of that day's
\* row; and the periods of the records are distinct.
C22_SnapshotIsLastTradingDate ==
    (ds_pc = "done") =>
        /\ \A k \in DOMAIN ds_sampled :
              \E i \in DOMAIN ds_rolled :
                  /\ ds_rolled[i].date = ds_sampled[k].snapshot_date
                  /\ \A j \in DOMAIN ds_rolled :
                        PeriodOf(ds_rolled[j].date) = PeriodOf(ds_rolled[i].date)
                            => ds_rolled[j].date <= ds_rolled[i].date
                  /\ ds_sampled[k].unit_nav = ds_rolled[i].unit_nav
                  /\ ds_sampled[k].ret = ds_rolled[i].ret
                  /\ ds_sampled[k].mdd = ds_rolled[i].mdd
        /\ \A k, m \in DOMAIN ds_sampled :
              ds_sampled[k].snapshot_date = ds_sampled[m].snapshot_date => k = m

(***************************************************************************)
(* Claims about degenerate period-return series.                            *)
(***************************************************************************)
\* the Sharpe key r, read as mean / std * sqrt(12) of the series pr, is the
\* number ((1 + mean)^12 - 1) / (std * sqrt(12))
C23_IsAnnualOverVolatility(r, pr) ==
    LET n == Len(pr)
        L == SeriesScale(pr)
        sum == SumTo(ScaledReturns(pr), n)
        base == BigPow(BigOfNat(Abs(n * L + sum)), AnnualizationPower)
        one == BigPow(BigOfNat(n * L), AnnualizationPower)
        c == BigCmp(base, one)
        gain == IF c >= 0 THEN BigSub(base, one) ELSE BigSub(one, base)
    IN  /\ r.sign = c
        /\ BigCmp(BigMulSmall(BigMul(r.mag, BigPow(BigOfNat(n * L), AnnualizationPower - 1)),
                              AnnualizationPower, 0),
                  gain) = 0

\* C23: the Sharpe evaluate_on_test reports for a window is annualized
\* return over volatility when the volatility is positive and there are two
\* or more period returns, and 0 otherwise.
C23_SharpeIsAnnualOverVolatility ==
    (rv_pc = "load_train" /\ rv_i > 1 /\ Len(results) = rv_i - 1) =>
        LET pr == GroupMean(TopPerSnapshot(DropNaTarget(test_df), rv_weights, rv_top_k))
            r == results[Len(results)].sharpe
        IN  IF Len(pr) < 2 \/ ScaledVariance(pr) = 0
            THEN r.sign = 0 /\ ~r.inf
            ELSE ~r.inf /\ C23_IsAnnualOverVolatility(r, pr)

(***************************************************************************)
(* The evaluators called directly on a table whose target column may hold   *)
(* missing values: the period returns they form.                            *)
(***************************************************************************)
\* a plausible slip: the fillna(0) is left out
FillNaKeep(v) == v

\* Series.fillna(0)
FillNaZero(v) == IF IsNaN(v) THEN Num(Frac(0, 1)) ELSE v

\* groupby("snapshot_date")[target].mean(): NaN values are skipped, and the
\* mean of a group without a value is NaN
MeanPerSnapshot(top) ==
    LET gm == GroupMean(top)
    IN  [ p \in DOMAIN gm |->
            [ snapshot_date |-> gm[p].snapshot_date,
              value |-> IF gm[p].cnt = 0 THEN NaN ELSE Num(Frac(gm[p].sum, gm[p].cnt)) ] ]

\* optimizer.py 99-100 and backtester.py 54-55:
\* top.groupby("snapshot_date")[target].mean().fillna(0)
PortfolioReturns(tbl, w, k) ==
    LET m == MeanPerSnapshot(TopPerSnapshot(tbl, w, k))
    IN  [ p \in DOMAIN m |->
            [ snapshot_date |-> m[p].snapshot_date, value |-> FillNaZero(m[p].value) ] ]

\* walk_forward_validator.py 306 and 343-345: dropna on the target first, then
\* the mean per snapshot of the selected rows
TestPortfolioReturns(tbl, w, k) == MeanPerSnapshot(TopPerSnapshot(DropNaTarget(tbl), w, k))

Evaluators == {"evaluate_weights", "evaluate", "evaluate_on_test"}

EvWeights == { [ j \in FeatureIdx |-> 1 ], [ j \in FeatureIdx |-> IF j = 1 THEN -1 ELSE 0 ] }

\* a table with its target column attached and no row dropped
InitPeriodReturns ==
    /\ IdleExceptEv
    /\ ev_pc = "call"
    /\ ev_kind \in Evaluators
    /\ \E fp \in FeaturePatterns, rp \in RetPatterns,
          cells \in SUBSET (Funds \X SnapshotDates) :
            ev_df = WithFutureColumn(
                        ReadSorted(FeatureTable(fp, rp, cells), "fund_code, snapshot_date"))
    /\ ev_weights \in EvWeights
    /\ ev_top_k \in 1..MaxTopK
    /\ ev_returns = <<>>

\* the evaluator forms portfolio_returns
EvPortfolioReturns ==
    /\ ev_pc = "call"
    /\ ev_returns' = IF ev_kind = "evaluate_on_test"
                     THEN TestPortfolioReturns(ev_df, ev_weights, ev_top_k)
                     ELSE PortfolioReturns(ev_df, ev_weights, ev_top_k)
    /\ ev_pc' = "done"
    /\ UNCHANGED <<ev_kind, ev_df, ev_weights, ev_top_k>>
    /\ UNCHANGED exceptEv

NextPeriodReturns == EvPortfolioReturns

SpecPeriodReturns == InitPeriodReturns /\ [][NextPeriodReturns]_vars

\* the table the evaluator selects from
C24_Table == IF ev_kind = "evaluate_on_test" THEN DropNaTarget(ev_df) ELSE ev_df

\* the rows selected for snapshot d whose target is not missing
C24_Present(d) ==
    LET top == TopPerSnapshot(C24_Table, ev_weights, ev_top_k)
    IN  { i \in DOMAIN top : top[i].snapshot_date = d /\ ~IsNaN(top[i].future) }

C24_Sum(d) ==
    LET top == TopPerSnapshot(C24_Table, ev_weights, ev_top_k)
    IN  SumTo([ i \in DOMAIN top |-> IF i \in C24_Present(d) THEN ValOf(top[i].future) ELSE 0 ],
              Len(top))

C25_Path(i) ==
    [ k \in 1..ds_window |-> ds_group[i - ds_window + k].unit_nav ]

C25_RunningMax(path, j) == Hi({ path[m] : m \in 1..j })

\* the places where the path falls
C25_Declines(path) == { j \in 2..Len(path) : path[j] < path[j - 1] }

\* C25: the max drawdown of every full rolling window of positive prices is
\* the minimum of price / running maximum - 1 along the window: it lies in
\* (-1, 0], is 0 when the window never falls, and is -1/2 when the window's
\* only fall is one to half of its running maximum.
C25_MaxDrawdown ==
    (ds_pc \in {"resample", "done"}) =>
        \A i \in DOMAIN ds_rolled :
            IF i < ds_window THEN IsNaN(ds_rolled[i].mdd)
            ELSE LET path == C25_Path(i)
                     v == ValOf(ds_rolled[i].mdd)
                 IN  /\ ~IsNaN(ds_rolled[i].mdd)
                     /\ v.d > 0 /\ v.n <= 0 /\ v.n > -v.d
                     /\ \A j \in DOMAIN path :
                           v.n * C25_RunningMax(path, j)
                               <= (path[j] - C25_RunningMax(path, j)) * v.d
                     /\ \E j \in DOMAIN path :
                           v.n * C25_RunningMax(path, j)
                               = (path[j] - C25_RunningMax(path, j)) * v.d
                     /\ C25_Declines(path) = {} => v.n = 0
                     /\ (\E j \in DOMAIN path :
                            /\ C25_Declines(path) = {j}
                            /\ 2 * path[j] = C25_RunningMax(path, j))
                        => 2 * v.n = -v.d

\* a window that rises and then falls once to half of its maximum, and a
\* window that never falls, both with their drawdown computed
C25_Witness ==
    /\ ds_pc = "done" /\ ds_window = 3
    /\ \E i, j \in DOMAIN ds_rolled :
          /\ i >= ds_window /\ j >= ds_window
          /\ C25_Path(i) = <<2, 4, 2>>
          /\ C25_Path(j) = <<1, 2, 4>>

(***************************************************************************)
(* crosssec_fit.fit_weights with one feature column.                        *)
(***************************************************************************)
CfFeatureValues == {-1, 1, 2}
CfReturns == {-1, 1}

\* the row of a fund in the target snapshot: none, a missing return, a return
CfTargetCells ==
    { [ present |-> FALSE, ret |-> NaN ], [ present |-> TRUE, ret |-> NaN ] }
        \cup { [ present |-> TRUE, ret |-> Num(r) ] : r \in CfReturns }

\* lines 72-75: inner merge on fund_code and dropna on the future return; the
\* merged rows keep the order of the training snapshot
Merged(train, target) ==
    LET keep == { f \in Funds : train[f] # <<>> /\ target[f].present /\ ~IsNaN(target[f].ret) }
    IN  [ i \in 1..Cardinality(keep) |->
            LET f == CHOOSE g \in keep : Cardinality({ h \in keep : h < g }) = i - 1
            IN  [ fund_code |-> f, x |-> train[f][1], y |-> ValOf(target[f].ret) ] ]

\* lines 51-54 for one column: solve (X'X + lam) w = X'y; numpy raises
\* LinAlgError for a singular matrix
RidgeFit(m, lam) ==
    LET xtx == SumTo([ i \in 1..Len(m) |-> m[i].x * m[i].x ], Len(m)) + lam
        xty == SumTo([ i \in 1..Len(m) |-> m[i].x * m[i].y ], Len(m))
    IN  [ singular |-> xtx = 0, w |-> Frac(xty, xtx) ]

\* sort_values(col, ascending=False).head(k) then set(fund_code); rows of
\* equal value keep their order (a table this short is insertion-sorted)
CfTop(m, vals, k) ==
    { m[i].fund_code : i \in { j \in 1..Len(m) :
          Cardinality({ h \in 1..Len(m) :
              vals[h] > vals[j] \/ (vals[h] = vals[j] /\ h < j) }) < k } }

\* lines 77-97: the fit and its FitResult; pred_score = x * w is ordered like
\* x * (numerator of w), the denominator being positive
FitWeights(train, target, lam, k) ==
    LET m == Merged(train, target)
        w == RidgeFit(m, lam)
        hits == CfTop(m, [ i \in 1..Len(m) |-> m[i].y ], k)
                  \cap CfTop(m, [ i \in 1..Len(m) |-> m[i].x * w.w.n ], k)
    IN  IF w.singular
        THEN [ kind |-> "raised", error |-> "LinAlgError" ]
        ELSE [ kind |-> "FitResult", error |-> "",
               weights |-> w.w, hit_count |-> Cardinality(hits),
               hit_rate |-> IF k # 0 THEN Frac(Cardinality(hits), k) ELSE Frac(0, 1) ]

InitFit ==
    /\ IdleExceptCf
    /\ cf_pc = "call"
    /\ cf_train \in [ Funds -> {<<>>} \cup { <<x>> : x \in CfFeatureValues } ]
    /\ cf_target \in [ Funds -> CfTargetCells ]
    /\ ridge_lambda \in {0, 1}
    /\ cf_top_k \in 1..MaxTopK
    /\ cf_result = <<>>

\* lines 57-97
CfFitWeights ==
    /\ cf_pc = "call"
    /\ cf_result' = <<FitWeights(cf_train, cf_target, ridge_lambda, cf_top_k)>>
    /\ cf_pc' = "done"
    /\ UNCHANGED <<cf_train, cf_target, ridge_lambda, cf_top_k>>
    /\ UNCHANGED exceptCf

NextFit == CfFitWeights

SpecFit == InitFit /\ [][NextFit]_vars

\* C26: when the join of the training rows and the target returns has no row
\* with a return, fit_weights raises InsufficientDataError.
C26_EmptyJoinRaises ==
    (cf_pc = "done" /\ Len(Merged(cf_train, cf_target)) = 0) =>
        /\ cf_result[1].kind = "raised"
        /\ cf_result[1].error = "InsufficientDataError"

(***************************************************************************)
(* utils/config.load_config.  A path is the tuple of its components; an     *)
(* absolute path starts with "/", a path under the home directory is        *)
(* written with a leading "~", and the empty tuple is the empty string.     *)
(***************************************************************************)
RootDir == <<"/", "app">>
Cwd == <<"/", "work">>
HomeDir == <<"/", "home", "u">>

IsAbsolute(p) == Len(p) > 0 /\ p[1] = "/"

\* os.path.expanduser
ExpandUser(p) == IF Len(p) > 0 /\ p[1] = "~" THEN HomeDir \o Tail(p) ELSE p

\* Path(p).resolve(): a relative path is taken from the working directory
PathResolve(p) == IF IsAbsolute(p) THEN p ELSE Cwd \o p

\* (root_dir / p).resolve(): an absolute p replaces root_dir
UnderRoot(p) == IF IsAbsolute(p) THEN p ELSE RootDir \o p

\* an entry of os.environ or of the defaults section
Unset == [ set |-> FALSE, value |-> <<>> ]
SetTo(v) == [ set |-> TRUE, value |-> v ]

\* a plausible slip: the configured default wins over the environment
ResolvePathDefaultFirst(entry, default) == default

\* lines 90-94: _resolve_path(os.getenv(NAME), default); None and the empty
\* string are both falsy
ResolvePath(entry, default) ==
    IF ~entry.set \/ entry.value = <<>> THEN default
    ELSE PathResolve(ExpandUser(entry.value))

\* defaults.get(key, fallback)
DefaultsGet(defaults, key, fallback) ==
    IF defaults[key].set THEN defaults[key].value ELSE fallback

\* int() of the text of a decimal number, given as its digits
RECURSIVE IntOfDigits(_)
IntOfDigits(ds) ==
    IF Len(ds) = 0 THEN 0 ELSE 10 * IntOfDigits(SubSeq(ds, 1, Len(ds) - 1)) + ds[Len(ds)]

\* lines 112-153: the paths and batch_size of the returned AppConfig
LoadConfig(env, defaults) ==
    [ output_dir |-> ResolvePath(env["FUNDSEEKER_OUTPUT_DIR"],
                        UnderRoot(DefaultsGet(defaults, "output_dir", <<"output">>))),
      logs_dir   |-> ResolvePath(env["FUNDSEEKER_LOGS_DIR"],
                        UnderRoot(DefaultsGet(defaults, "logs_dir", <<"logs">>))),
      data_dir   |-> ResolvePath(env["FUNDSEEKER_DATA_DIR"],
                        UnderRoot(DefaultsGet(defaults, "data_dir", <<"data">>))),
      batch_size |-> IF env["FUNDSEEKER_BATCH_SIZE"].set
                     THEN IntOfDigits(env["FUNDSEEKER_BATCH_SIZE"].value)
                     ELSE IntOfDigits(DefaultsGet(defaults, "batch_size", <<1, 0>>)) ]

EnvPathEntries ==
    { Unset, SetTo(<<>>), SetTo(<<"/", "srv", "out">>), SetTo(<<"tmp-output">>),
      SetTo(<<"~", "out">>) }

YamlPathEntries == { Unset, SetTo(<<"out2">>), SetTo(<<"/", "etc", "out">>) }

BatchEntries == { Unset, SetTo(<<0>>), SetTo(<<2, 5>>) }

InitConfig ==
    /\ IdleExceptLc
    /\ lc_pc = "call"
    /\ \E o \in EnvPathEntries, l \in {Unset, SetTo(<<"/", "srv", "logs">>)},
          b \in BatchEntries :
          environ = [ k \in {"FUNDSEEKER_OUTPUT_DIR", "FUNDSEEKER_LOGS_DIR",
                             "FUNDSEEKER_DATA_DIR", "FUNDSEEKER_BATCH_SIZE"} |->
                        CASE k = "FUNDSEEKER_OUTPUT_DIR" -> o
                          [] k = "FUNDSEEKER_LOGS_DIR"   -> l
                          [] k = "FUNDSEEKER_DATA_DIR"   -> Unset
                          [] k = "FUNDSEEKER_BATCH_SIZE" -> b ]
    /\ \E o \in YamlPathEntries, d \in YamlPathEntries, b \in BatchEntries :
          yaml_defaults = [ k \in {"output_dir", "logs_dir", "data_dir", "batch_size"} |->
                        CASE k = "output_dir" -> o
                          [] k = "logs_dir"   -> Unset
                          [] k = "data_dir"   -> d
                          [] k = "batch_size" -> b ]
    /\ app_config = <<>>

\* lines 109-218
LcLoadConfig ==
    /\ lc_pc = "call"
    /\ app_config' = <<LoadConfig(environ, yaml_defaults)>>
    /\ lc_pc' = "done"
    /\ UNCHANGED <<environ, yaml_defaults>>
    /\ UNCHANGED exceptLc

NextConfig == LcLoadConfig

SpecConfig == InitConfig /\ [][NextConfig]_vars

\* the environment with FUNDSEEKER_OUTPUT_DIR removed
C27_WithoutOutputDir ==
    [ k \in DOMAIN environ |-> IF k = "FUNDSEEKER_OUTPUT_DIR" THEN Unset ELSE environ[k] ]

\* C27 as stated: the three directories are absolute, batch_size is positive
\* when neither the environment nor config.yaml sets it, and whenever
\* FUNDSEEKER_OUTPUT_DIR is set output_dir is its value resolved to an
\* absolute path, the other paths being what they are without it.
C27_EnvOverridesOutputDir ==
    (lc_pc = "done") =>
        /\ IsAbsolute(app_config[1].output_dir)
        /\ IsAbsolute(app_config[1].logs_dir)
        /\ IsAbsolute(app_config[1].data_dir)
        /\ (~environ["FUNDSEEKER_BATCH_SIZE"].set /\ ~yaml_defaults["batch_size"].set)
              => app_config[1].batch_size > 0
        /\ environ["FUNDSEEKER_OUTPUT_DIR"].set =>
              /\ app_config[1].output_dir = PathResolve(environ["FUNDSEEKER_OUTPUT_DIR"].value)
              /\ app_config[1].logs_dir = LoadConfig(C27_WithoutOutputDir, yaml_defaults).logs_dir
              /\ app_config[1].data_dir = LoadConfig(C27_WithoutOutputDir, yaml_defaults).data_dir

\* C27, amended: the same, for a FUNDSEEKER_OUTPUT_DIR set to a value that is
\* not empty and does not start with "~"; an empty value leaves output_dir at
\* the configured default and a leading "~" is replaced by the home directory.
C27_NonEmptyEnvOverridesOutputDir ==
    (lc_pc = "done") =>
        /\ IsAbsolute(app_config[1].output_dir)
        /\ IsAbsolute(app_config[1].logs_dir)
        /\ IsAbsolute(app_config[1].data_dir)
        /\ (~environ["FUNDSEEKER_BATCH_SIZE"].set /\ ~yaml_defaults["batch_size"].set)
              => app_config[1].batch_size > 0
        /\ environ["FUNDSEEKER_OUTPUT_DIR"].set =>
              /\ IF environ["FUNDSEEKER_OUTPUT_DIR"].value = <<>>
                 THEN app_config[1].output_dir
                        = LoadConfig(C27_WithoutOutputDir, yaml_defaults).output_dir
                 ELSE IF environ["FUNDSEEKER_OUTPUT_DIR"].value[1] = "~"
                 THEN app_config[1].output_dir
                        = HomeDir \o Tail(environ["FUNDSEEKER_OUTPUT_DIR"].value)
                 ELSE app_config[1].output_dir
                        = PathResolve(environ["FUNDSEEKER_OUTPUT_DIR"].value)
              /\ app_config[1].logs_dir = LoadConfig(C27_WithoutOutputDir, yaml_defaults).logs_dir
              /\ app_config[1].data_dir = LoadConfig(C27_WithoutOutputDir, yaml_defaults).data_dir

\* a relative FUNDSEEKER_OUTPUT_DIR has overridden the output_dir of
\* config.yaml
C27_Witness ==
    /\ lc_pc = "done"
    /\ environ["FUNDSEEKER_OUTPUT_DIR"] = SetTo(<<"tmp-output">>)
    /\ yaml_defaults["output_dir"].set
    /\ app_config[1].output_dir = Cwd \o <<"tmp-output">>

\* C28: in the walk-forward search every candidate weight, and every weight
\* of a vector the search found, lies in [min_weight, max_weight].
C28_GridWithinBounds ==
    (op_mode = "wf" /\ op_pc \in {"search", "done"}) =>
        /\ \A i \in DOMAIN grid_values :
              MinWeight <= grid_values[i] /\ grid_values[i] <= MaxWeight
        /\ \A i \in DOMAIN best_weights : \A j \in FeatureIdx :
              MinWeight <= best_weights[i][j] /\ best_weights[i][j] <= MaxWeight

\* the combinations of the grid whose walk-forward objective is finite
C29_Finite ==
    { i \in 0..(NumCombos(grid_values) - 1) :
        ~WfEvaluateWeights(df, Combo(grid_values, i)).inf }

\* C29: optimize_weights on a training table with at least one row that has a
\* target returns a weight for every requested feature column: the fallback
\* weight 0.1 for every feature when no candidate has a finite objective, and
\* otherwise a candidate whose objective is finite; it raises only when no row
\* has a target.
C29_TotalMappingOrFallback ==
    /\ (op_mode = "wf" /\ op_pc = "raised") =>
          DropNaTarget(WithFutureReturns(features)) = <<>>
    /\ (op_mode = "wf" /\ op_pc = "done") =>
          /\ Len(df) > 0
          /\ output[1].kind = "returned"
          /\ DOMAIN output[1].weights = FeatureIdx
          /\ (C29_Finite = {}) =>
                \A j \in FeatureIdx : output[1].weights[j] = FallbackWeight
          /\ (C29_Finite # {}) =>
                \E i \in C29_Finite : output[1].weights = Combo(grid_values, i)

\* a finished search over a table with two snapshots in which every
\* candidate had a zero deviation, so that the fallback came back
C29_Witness ==
    /\ op_mode = "wf" /\ op_pc = "done"
    /\ \E a, b \in DOMAIN df : df[a].snapshot_date # df[b].snapshot_date
    /\ C29_Finite = {}
    /\ output[1].weights = [ j \in FeatureIdx |-> FallbackWeight ]

(***************************************************************************)
(* services/detail_service.DetailService.run on one input file, with the   *)
(* process killed at any point and run called again.  The detail fetched    *)
(* for input row idx is written idx; a file name is the number of the run   *)
(* that chose it, names being timestamps.                                   *)
(***************************************************************************)
MaxRows == 3
MaxRuns == 3

RunIds == 1..MaxRuns

SaveIntervals == {1, 2}

NoProgressFile ==
    [ exists |-> FALSE, output_file |-> 0, total |-> 0, processed_count |-> 0,
      last_index |-> -1, completed |-> FALSE ]

NoOutputFile == [ exists |-> FALSE, rows |-> <<>> ]

\* lines 116-141: the candidates in reverse name order, the first one that is
\* not completed (every file is of the one input)
ResumeCandidates(dir) == { k \in DOMAIN dir : dir[k].exists /\ ~dir[k].completed }

FindExistingProgress(dir) ==
    IF ResumeCandidates(dir) = {} THEN <<>>
    ELSE LET k == CHOOSE c \in ResumeCandidates(dir) : \A o \in ResumeCandidates(dir) : o <= c
         IN  <<[ progress_file |-> k, output_file |-> dir[k].output_file,
                 total |-> dir[k].total, processed_count |-> dir[k].processed_count,
                 last_index |-> dir[k].last_index, completed |-> dir[k].completed ]>>

\* lines 107-111: the records of the workbook, none when it does not exist
LoadExistingResults(file) == IF file.exists THEN file.rows ELSE <<>>

\* lines 113-115: results as a workbook
Persist(res) == [ exists |-> TRUE, rows |-> res ]

\* lines 143-165
SaveProgress(out, total, processed, last, completed) ==
    [ exists |-> TRUE, output_file |-> out, total |-> total,
      processed_count |-> processed, last_index |-> last, completed |-> completed ]

InitDetails ==
    /\ IdleExceptDt
    /\ dt_pc = "start"
    /\ dt_total \in 0..MaxRows
    /\ save_interval \in SaveIntervals
    /\ dt_runs = 0
    /\ progress_dir = [ k \in RunIds |-> NoProgressFile ]
    /\ output_dir = [ k \in RunIds |-> NoOutputFile ]
    /\ progress_info = <<>>
    /\ progress_path = 0
    /\ output_path = 0
    /\ dt_processed = 0
    /\ dt_last_index = -1
    /\ dt_results = <<>>

\* lines 42-65: run up to the loop, started for the first time, again after
\* an interruption, or again after a completed run
DtRun ==
    /\ dt_pc \in {"start", "stopped", "returned"}
    /\ dt_runs < MaxRuns
    /\ dt_runs' = dt_runs + 1
    /\ \E auto_resume \in BOOLEAN :
          progress_info' = IF auto_resume THEN FindExistingProgress(progress_dir) ELSE <<>>
    /\ IF progress_info' # <<>>
       THEN /\ output_path' = progress_info'[1].output_file
            /\ progress_path' = progress_info'[1].progress_file
            /\ dt_processed' = progress_info'[1].processed_count
            /\ dt_last_index' = progress_info'[1].last_index
            /\ dt_results' = LoadExistingResults(output_dir[output_path'])
       ELSE /\ progress_path' = dt_runs'
            /\ output_path' = dt_runs'
            /\ dt_processed' = 0
            /\ dt_last_index' = -1
            /\ dt_results' = <<>>
    /\ dt_pc' = "loop"
    /\ UNCHANGED <<dt_total, save_interval, progress_dir, output_dir>>
    /\ UNCHANGED exceptDt

\* lines 69-76 and 83: one iteration up to the test of save_interval
DtFetch ==
    /\ dt_pc = "loop"
    /\ dt_last_index + 1 < dt_total
    /\ dt_results' = Append(dt_results, dt_last_index + 1)
    /\ dt_processed' = dt_processed + 1
    /\ dt_last_index' = dt_last_index + 1
    /\ dt_pc' = IF dt_processed' % save_interval = 0 THEN "persist" ELSE "loop"
    /\ UNCHANGED <<dt_total, save_interval, dt_runs, progress_dir, output_dir,
                   progress_info, progress_path, output_path>>
    /\ UNCHANGED exceptDt

\* line 79
DtPersist ==
    /\ dt_pc = "persist"
    /\ output_dir' = [ output_dir EXCEPT ![output_path] = Persist(dt_results) ]
    /\ dt_pc' = "save_progress"
    /\ UNCHANGED <<dt_total, save_interval, dt_runs, progress_dir, progress_info,
                   progress_path, output_path, dt_processed, dt_last_index, dt_results>>
    /\ UNCHANGED exceptDt

\* line 80
DtSaveProgress ==
    /\ dt_pc = "save_progress"
    /\ progress_dir' = [ progress_dir EXCEPT ![progress_path] =
                            SaveProgress(output_path, dt_total, dt_processed,
                                         dt_last_index, FALSE) ]
    /\ dt_pc' = "loop"
    /\ UNCHANGED <<dt_total, save_interval, dt_runs, output_dir, progress_info,
                   progress_path, output_path, dt_processed, dt_last_index, dt_results>>
    /\ UNCHANGED exceptDt

\* line 85
DtFinalPersist ==
    /\ dt_pc = "loop"
    /\ dt_last_index + 1 >= dt_total
    /\ output_dir' = [ output_dir EXCEPT ![output_path] = Persist(dt_results) ]
    /\ dt_pc' = "final_save"
    /\ UNCHANGED <<dt_total, save_interval, dt_runs, progress_dir, progress_info,
                   progress_path, output_path, dt_processed, dt_last_index, dt_results>>
    /\ UNCHANGED exceptDt

\* lines 86-88
DtFinalSaveProgress ==
    /\ dt_pc = "final_save"
    /\ progress_dir' = [ progress_dir EXCEPT ![progress_path] =
                            SaveProgress(output_path, dt_total, dt_processed,
                                         dt_last_index, TRUE) ]
    /\ dt_pc' = "returned"
    /\ UNCHANGED <<dt_total, save_interval, dt_runs, output_dir, progress_info,
                   progress_path, output_path, dt_processed, dt_last_index, dt_results>>
    /\ UNCHANGED exceptDt

\* the process is killed between two file writes; what it held in memory is
\* gone, the files stay
DtInterrupt ==
    /\ dt_pc \in {"loop", "persist", "save_progress", "final_save"}
    /\ dt_pc' = "stopped"
    /\ progress_info' = <<>>
    /\ progress_path' = 0
    /\ output_path' = 0
    /\ dt_processed' = 0
    /\ dt_last_index' = -1
    /\ dt_results' = <<>>
    /\ UNCHANGED <<dt_total, save_interval, dt_runs, progress_dir, output_dir>>
    /\ UNCHANGED exceptDt

NextDetails ==
    \/ DtRun \/ DtFetch \/ DtPersist \/ DtSaveProgress
    \/ DtFinalPersist \/ DtFinalSaveProgress \/ DtInterrupt

SpecDetails == InitDetails /\ [][NextDetails]_vars

\* C30: whatever the interruption points, a run that returns leaves an output
\* with exactly one result per input row in input order and a progress file
\* with completed = true and processed_count = last_index + 1 = total, and no
\* run resumes from a progress file marked completed.
C30_ResumeExactlyOnce ==
    /\ (dt_pc \notin {"idle", "start", "stopped"} /\ progress_info # <<>>) =>
          ~progress_info[1].completed
    /\ (dt_pc = "returned") =>
          /\ output_dir[output_path].exists
          /\ output_dir[output_path].rows = [ i \in 1..dt_total |-> i - 1 ]
          /\ progress_dir[progress_path].exists
          /\ progress_dir[progress_path].completed
          /\ progress_dir[progress_path].processed_count = dt_total
          /\ progress_dir[progress_path].last_index + 1 = dt_total

Init == InitWindows \/ InitSearch \/ InitValidation \/ InitRandom \/ InitLoad \/ InitFeatures \/ InitSeries \/ InitPeriodReturns \/ InitFit \/ InitConfig \/ InitDetails

Next == NextWindows \/ NextSearch \/ NextValidation \/ NextRandom \/ NextReport \/ NextLoad \/ NextFeatures \/ NextSeries \/ NextPeriodReturns \/ NextFit \/ NextConfig \/ NextDetails

Spec == Init /\ [][Next]_vars

====
